---- MODULE Spec2Model ----
(***************************************************************************)
(* A model of gm-quic's stream multiplexing engine                         *)
(* (qrecovery/src/streams/raw.rs, DataStreams).                            *)
(*                                                                         *)
(* DataStreams owns three locked maps (output, input, listener), the       *)
(* stream-id allocators and the control-frame sink.  Every public method   *)
(* is one action.  The per-stream halves (Outgoing / Incoming), the        *)
(* IOState, the listener and the stream-id allocator live in other files   *)
(* of the repository; they are modelled from the specification and their   *)
(* definitions say so.                                                     *)
(***************************************************************************)
EXTENDS Integers, Sequences, FiniteSets, TLC

(***************************************************************************)
(* Bounds of the model.                                                    *)
(***************************************************************************)
\* ordinals 0..MaxOrd of every stream class appear in received frames
MaxOrd == 2
\* at most this many application writes over a run
MaxWrites == 2
\* at most this many STREAM frames in the sent journal at a time
MaxInflight == 2
\* at most this many try_read_data calls that return a frame
MaxReads == 3
\* at most this many STREAM frames declared lost over a run
MaxLosses == 1
\* try_read_data calls of a run in which the protocol layer keeps asking; the
\* writes and losses of the run keep the calls that return a frame below it
MaxLiveReads == 40
\* at most this many frames received from the peer that change the engine
MaxFrames == 3
\* at most this many application writes over a run in which streams wait
MaxServeWrites == 3

(***************************************************************************)
(* Program constants.                                                      *)
(***************************************************************************)
\* raw.rs:182  const DEFAULT_TOKENS: usize = 4096
DEFAULT_TOKENS == 4096
\* qbase::frame::STREAM_FRAME_MAX_ENCODING_SIZE: type + sid + offset + length
STREAM_FRAME_MAX_ENCODING_SIZE == 25

(***************************************************************************)
(* Inputs the environment draws from.                                      *)
(***************************************************************************)
Roles == {"Client", "Server"}
Dirs == {"Bi", "Uni"}
\* buffer lengths offered to try_read_data (the first is below the minimum)
BufLens == {20, 5000}
\* connection flow credit offered to try_read_data
FlowLimits == {0, 4000, 100000}
\* the flow credit of the calls that are to serve every stream
AmpleFlow == 100000
\* bytes an application write appends
WriteLens == {5000}
\* send windows: snd_wnd_size of open/accept, and MAX_STREAM_DATA values
WndSizes == {5000}
MaxStreamDataVals == {10000}
\* the role DataStreams::new is given
LocalRoles == {"Server"}
\* local transport parameters: initial_max_streams_bidi / _uni
InitMaxStreamsBidi == 2
InitMaxStreamsUni == 1
\* receive buffer sizes (initial_max_stream_data_*)
RcvBufSize == 6000
\* offsets and payload lengths of received STREAM frames, final sizes of
\* received RESET_STREAM frames
RcvOffsets == {0}
RcvLens == {1000, 7000}
RcvFinalSizes == {0, 1000}
\* values a received MAX_STREAMS frame carries
MaxStreamsVals == {1}
\* connection errors
NoErr == "NoErr"
ConnErrs == {"E1", "E2"}

None == [is_none |-> TRUE]

(***************************************************************************)
(* Stream ids (qbase::sid): bit 0 is the initiator, bit 1 the direction.   *)
(***************************************************************************)
Role(sid) == IF sid % 2 = 0 THEN "Client" ELSE "Server"
Dir(sid) == IF (sid \div 2) % 2 = 0 THEN "Bi" ELSE "Uni"
Ord(sid) == sid \div 4
Sid(r, d, ord) ==
    4 * ord + (IF r = "Client" THEN 0 ELSE 1) + (IF d = "Bi" THEN 0 ELSE 2)
Peer(r) == IF r = "Client" THEN "Server" ELSE "Client"
AllSids == {Sid(r, d, o) : r \in Roles, d \in Dirs, o \in 0..MaxOrd}

Min(a, b) == IF a < b THEN a ELSE b
Max(a, b) == IF a > b THEN a ELSE b
SetMin(S) == CHOOSE x \in S : \A y \in S : x <= y
\* the value a one-element set holds
Only(S) == CHOOSE x \in S : TRUE

\* qbase::varint: the shortest encoding of v
VarIntSize(v) ==
    IF v < 64 THEN 1 ELSE IF v < 16384 THEN 2 ELSE IF v < 1073741824 THEN 4 ELSE 8

(***************************************************************************)
(* Byte ranges [lo, hi) kept as sets of pairs.                             *)
(***************************************************************************)
Covers(S, a, b) ==
    \A p \in {a} \cup {iv[2] : iv \in S} :
        (a <= p /\ p < b) => \E iv \in S : iv[1] <= p /\ p < iv[2]
Normalise(S) ==
    {iv \in {x[1] : x \in S} \X {x[2] : x \in S} :
        /\ iv[1] < iv[2]
        /\ Covers(S, iv[1], iv[2])
        /\ ~ \E x \in S : x[1] < iv[1] /\ iv[1] <= x[2]
        /\ ~ \E x \in S : x[1] <= iv[2] /\ iv[2] < x[2]}
AddRange(S, a, b) == IF a < b THEN Normalise(S \cup {<<a, b>>}) ELSE S
SubRange(S, a, b) ==
    {iv \in {<<x[1], Min(x[2], a)>> : x \in S} \cup {<<Max(x[1], b), x[2]>> : x \in S} :
        iv[1] < iv[2]}
RECURSIVE SubRanges(_, _)
SubRanges(S, T) ==
    IF T = {} THEN S
    ELSE LET t == CHOOSE x \in T : TRUE
         IN SubRanges(SubRange(S, t[1], t[2]), T \ {t})
\* the bytes of [a, b) that S does not hold
Outside(S, a, b) ==
    LET cuts == {a, b} \cup {p \in {x[1] : x \in S} \cup {x[2] : x \in S} : a < p /\ p < b}
    IN Normalise({iv \in cuts \X cuts :
            /\ iv[1] < iv[2]
            /\ ~ \E p \in cuts : iv[1] < p /\ p < iv[2]
            /\ ~ \E x \in S : x[1] <= iv[1] /\ iv[1] < x[2]})

(***************************************************************************)
(* The sending half of a stream (qrecovery::send, Outgoing / Writer).      *)
(* The send buffer is a byte log: [0, written) was appended by the         *)
(* application, [0, sent) was transmitted at least once, `acked` and       *)
(* `lost` are the acknowledged ranges and those marked for retransmission. *)
(***************************************************************************)
SendStates == {"Ready", "Sending", "DataSent", "DataRcvd", "ResetSent", "ResetRcvd"}
NewSender(wnd) ==
    [st |-> "Ready", wnd |-> wnd, written |-> 0, sent |-> 0,
     lost |-> {}, acked |-> {}, fin |-> "None"]

\* StreamFrame::estimate_max_capacity: the room left for data, -1 for none
estimate_max_capacity(capacity, sid, offset) ==
    LET least == 1 + VarIntSize(sid) + (IF offset # 0 THEN VarIntSize(offset) ELSE 0)
    IN IF capacity <= least THEN -1 ELSE capacity - least
StreamFrameHeaderLen(sid, offset) ==
    1 + VarIntSize(sid) + (IF offset # 0 THEN VarIntSize(offset) ELSE 0)

\* SendBuf::pick_up: the first range that is lost (a retransmission) or was
\* never sent (fresh, limited by the connection flow credit); None if none
pick_up(s, sid, buf_len, tokens, flow_limit) ==
    IF s.lost # {}
    THEN LET lo == SetMin({iv[1] : iv \in s.lost})
             hi == SetMin({iv[2] : iv \in {x \in s.lost : x[1] = lo}})
             cap == estimate_max_capacity(buf_len, sid, lo)
         IN IF cap < 0 THEN None
            ELSE [offset |-> lo, len |-> Min(Min(tokens, cap), hi - lo), is_fresh |-> FALSE]
    ELSE IF s.sent < s.written
    THEN LET cap == estimate_max_capacity(buf_len, sid, s.sent)
             len == IF cap < 0 THEN 0
                    ELSE Min(Min(Min(tokens, cap), s.written - s.sent), flow_limit)
         IN IF len = 0 THEN None
            ELSE [offset |-> s.sent, len |-> len, is_fresh |-> TRUE]
    ELSE None

\* Outgoing::try_read: None, or the frame read with the sender after it
Outgoing_try_read(s, sid, buf_len, tokens, flow_limit) ==
    IF s.st \notin {"Ready", "Sending", "DataSent"} THEN None
    ELSE Only({
        IF p # None
        THEN [snd |-> [s EXCEPT
                         !.st = IF s.st = "Ready" THEN "Sending" ELSE s.st,
                         !.sent = IF p.is_fresh THEN s.sent + p.len ELSE s.sent,
                         !.lost = SubRange(s.lost, p.offset, p.offset + p.len),
                         !.fin = IF s.st = "DataSent" /\ p.offset + p.len = s.written
                                 THEN "Sent" ELSE s.fin],
              frame |-> [id |-> sid, offset |-> p.offset, len |-> p.len,
                         fin |-> s.st = "DataSent" /\ p.offset + p.len = s.written],
              data_len |-> p.len,
              is_fresh |-> p.is_fresh,
              written |-> StreamFrameHeaderLen(sid, p.offset) + p.len]
        ELSE IF /\ s.st = "DataSent" /\ s.fin \in {"None", "Lost"}
                /\ s.lost = {} /\ s.sent = s.written
                /\ estimate_max_capacity(buf_len, sid, s.written) >= 0
        THEN \* all data is out: the end of the stream goes in an empty frame
             [snd |-> [s EXCEPT !.fin = "Sent"],
              frame |-> [id |-> sid, offset |-> s.written, len |-> 0, fin |-> TRUE],
              data_len |-> 0,
              is_fresh |-> FALSE,
              written |-> StreamFrameHeaderLen(sid, s.written)]
        ELSE None
        : p \in {pick_up(s, sid, buf_len, tokens, flow_limit)}})

\* Outgoing::on_data_acked: mark the range acknowledged; `all` when every byte
\* and the FIN are acknowledged (the sender then is DataRcvd)
Outgoing_on_data_acked(s, lo, hi, is_fin) ==
    IF s.st \notin {"Sending", "DataSent"} THEN [snd |-> s, all |-> FALSE]
    ELSE LET acked == AddRange(s.acked, lo, hi)
             fin == IF is_fin /\ s.st = "DataSent" THEN "Acked" ELSE s.fin
             all == s.st = "DataSent" /\ fin = "Acked" /\ Covers(acked, 0, s.written)
         IN [snd |-> [s EXCEPT !.acked = acked,
                               !.lost = SubRange(s.lost, lo, hi),
                               !.fin = fin,
                               !.st = IF all THEN "DataRcvd" ELSE s.st],
             all |-> all]

\* Outgoing::may_loss_data: re-mark the unacknowledged bytes of the range
Outgoing_may_loss_data(s, lo, hi) ==
    IF s.st \notin {"Sending", "DataSent"} THEN s
    ELSE [s EXCEPT !.lost = Normalise(s.lost \cup Outside(s.acked, lo, hi)),
                   !.fin = IF s.st = "DataSent" /\ s.fin = "Sent" /\ hi = s.written
                           THEN "Lost" ELSE s.fin]

\* Outgoing::stop: TRUE when the sending half was still active and is reset now
Outgoing_stop(s) ==
    IF s.st \in {"Ready", "Sending", "DataSent"}
    THEN [snd |-> [s EXCEPT !.st = "ResetSent", !.lost = {}], stopped |-> TRUE]
    ELSE [snd |-> s, stopped |-> FALSE]

\* Outgoing::on_reset_acked
Outgoing_on_reset_acked(s) ==
    IF s.st = "ResetSent" THEN [s EXCEPT !.st = "ResetRcvd"] ELSE s

\* Outgoing::update_window: the limit only grows
Outgoing_update_window(s, max_data) ==
    IF s.st \in {"Ready", "Sending"} /\ max_data > s.wnd
    THEN [s EXCEPT !.wnd = max_data] ELSE s

\* Writer::write: the bytes accepted, which the send window limits; -1 is an error
Writer_write_len(s, n) ==
    IF s.st \in {"Ready", "Sending"} THEN Min(n, s.wnd - s.written) ELSE -1
Writer_write(s, n) ==
    IF Writer_write_len(s, n) > 0
    THEN [s EXCEPT !.written = s.written + Writer_write_len(s, n)] ELSE s
\* Writer::shutdown: the application ends the stream
Writer_shutdown(s) ==
    IF s.st \in {"Ready", "Sending"} THEN [s EXCEPT !.st = "DataSent"] ELSE s

(***************************************************************************)
(* The receiving half of a stream (qrecovery::recv, Incoming).             *)
(***************************************************************************)
NewRecver(buf_size) ==
    [st |-> "Recv", max_data |-> buf_size, rcvd |-> {}, final_size |-> -1]
Prefix(S) == IF \E iv \in S : iv[1] = 0 THEN (CHOOSE iv \in S : iv[1] = 0)[2] ELSE 0
Largest(S) == IF S = {} THEN 0 ELSE CHOOSE h \in {iv[2] : iv \in S} : \A iv \in S : iv[2] <= h

\* Incoming::recv_data: the bytes newly added to the contiguous prefix, or the
\* error the frame is (FlowControl beyond the window, FinalSize on a
\* contradiction with the known size)
Incoming_recv_data(r, f) ==
    LET end == f.offset + f.len IN
    IF r.st \notin {"Recv", "SizeKnown"} THEN [rcv |-> r, err |-> NoErr, new |-> 0]
    ELSE IF end > r.max_data THEN [rcv |-> r, err |-> "FlowControl", new |-> 0]
    ELSE IF \/ r.final_size >= 0 /\ (end > r.final_size \/ (f.fin /\ end # r.final_size))
            \/ f.fin /\ end < Largest(r.rcvd)
    THEN [rcv |-> r, err |-> "FinalSize", new |-> 0]
    ELSE LET rcvd == AddRange(r.rcvd, f.offset, end)
             final == IF f.fin THEN end ELSE r.final_size
         IN [rcv |-> [r EXCEPT !.rcvd = rcvd, !.final_size = final,
                               !.st = IF final < 0 THEN "Recv"
                                      ELSE IF Covers(rcvd, 0, final) THEN "DataRcvd"
                                      ELSE "SizeKnown"],
             err |-> NoErr,
             new |-> Prefix(rcvd) - Prefix(r.rcvd)]

\* Incoming::recv_reset: the receive buffer is torn down
Incoming_recv_reset(r, final_size) ==
    IF r.st \notin {"Recv", "SizeKnown"} THEN [rcv |-> r, err |-> NoErr]
    ELSE IF final_size < Largest(r.rcvd) \/ (r.final_size >= 0 /\ final_size # r.final_size)
    THEN [rcv |-> r, err |-> "FinalSize"]
    ELSE [rcv |-> [r EXCEPT !.st = "ResetRcvd", !.rcvd = {}, !.final_size = -1],
          err |-> NoErr]

(***************************************************************************)
(* IOState: the two halves' shutdown flags, shared by the maps' entries.   *)
(***************************************************************************)
IOState_bidirection == [send |-> FALSE, receive |-> FALSE]
IOState_send_only == [send |-> FALSE, receive |-> TRUE]
IOState_receive_only == [send |-> TRUE, receive |-> FALSE]
shutdown_send(io) == [io EXCEPT !.send = TRUE]
shutdown_receive(io) == [io EXCEPT !.receive = TRUE]
is_terminated(io) == io.send /\ io.receive

(***************************************************************************)
(* The stream-id allocators (qbase::sid, StreamIds).                       *)
(***************************************************************************)
\* RemoteStreamIds::try_accept_sid: ExceedLimitError, Old, or New with the
\* ids to create (every id of the class from the first unallocated one on)
remote_try_accept_sid(ids, sid) ==
    LET d == Dir(sid) IN
    IF Ord(sid) >= ids.remote_max[d] THEN [kind |-> "ExceedLimit", ids |-> ids, need_create |-> <<>>]
    ELSE IF Ord(sid) < ids.remote_unallocated[d] THEN [kind |-> "Old", ids |-> ids, need_create |-> <<>>]
    ELSE [kind |-> "New",
          ids |-> [ids EXCEPT !.remote_unallocated[d] = Ord(sid) + 1],
          need_create |-> [i \in 1..(Ord(sid) + 1 - ids.remote_unallocated[d]) |->
                              Sid(Role(sid), d, ids.remote_unallocated[d] + i - 1)]]
\* RemoteStreamIds::on_end_of_stream
on_end_of_stream(ids, sid) == [ids EXCEPT !.ended[sid] = @ + 1]
\* LocalStreamIds::recv_frame(MAX_STREAMS): the limit only grows
local_recv_max_streams(ids, d, v) == [ids EXCEPT !.local_max[d] = Max(@, v)]

(***************************************************************************)
(* DataStreams.  `ds` is the engine's state as one record; an operation    *)
(* maps it to the state after, with what the operation returned.           *)
(***************************************************************************)
VARIABLES
    role,          \* DataStreams::role
    stream_ids,    \* DataStreams::stream_ids
    output,        \* DataStreams::output: err, outgoings, last_sent_stream
    input,         \* DataStreams::input: err, incomings
    listener,      \* DataStreams::listener: err, the accept queues
    senders,       \* the ArcSender of each stream created
    recvers,       \* the ArcRecver of each stream created
    io_states,     \* the IOState of each stream created
    ctrl_frames,   \* DataStreams::ctrl_frames: the control frames queued
    sent_journal,  \* the STREAM frames in flight (the caller's sent journal)
    hist,          \* bookkeeping of the run: what was delivered, advertised, served
    \* HandshakeSpace and what its receive task is given
    rcvd_packets,  \* RcvdPackets: the queue of Handshake packets not yet taken
    keys,          \* HandshakeSpace::keys: Pending, Ready or Invalid
    notify,        \* the shutdown notifier has fired
    task,          \* the receive task: where it is and the packet in hand
    rcvd_journal,  \* HandshakeSpace::journal, received side: window base, PNs registered
    pathes,        \* ArcPaths: per pathway the bytes credited and the limiter's release
    conn_error,    \* ConnError: what was raised on it, in order
    cc,            \* the calls the congestion controller received, in order
    channels,      \* the queues of ACK and CRYPTO frames dispatch_frame feeds
    hs_hist,       \* bookkeeping of the run: arrivals, packets processed, exits
    journal_sent,  \* HandshakeSpace::journal, sent side: PN -> CRYPTO frames carried
    crypto_stream, \* HandshakeSpace::crypto_stream, outgoing half
    tx_hist,       \* bookkeeping of the run: frames retired, PNs acknowledged and lost
    closing,       \* ClosingHandshakeScope, once the space was converted
    pipes,         \* the two tasks pipe! spawns, and the incoming crypto stream
    rtt,           \* qcongestion: the Rtt behind ArcRtt
    rtt_hist,      \* bookkeeping of the run: samples fed, the last update
    wire,          \* qbase: a RETIRE_CONNECTION_ID frame, its bytes, and what was parsed
    \* the stream engine as its locks see it
    locks,         \* per mutex the thread that holds it, 0 for none
    threads,       \* per thread the operation it runs and the step it is at
    engine         \* what the locks guard: the maps' members, the IOStates, the allocator

\* the variables of the stream engine and of the Handshake space
dsvars == <<role, stream_ids, output, input, listener, senders, recvers, io_states,
            ctrl_frames, sent_journal, hist>>
rxvars == <<rcvd_packets, keys, notify, task, rcvd_journal, pathes, conn_error, cc,
            channels, hs_hist>>
txvars == <<journal_sent, crypto_stream, tx_hist, closing, pipes>>
convars == <<locks, threads, engine>>
libvars == <<rtt, rtt_hist, wire, convars>>
vars == <<dsvars, rxvars, txvars, libvars>>

DS == [role |-> role, stream_ids |-> stream_ids, output |-> output, input |-> input,
       listener |-> listener, senders |-> senders, recvers |-> recvers,
       io_states |-> io_states, ctrl_frames |-> ctrl_frames]
Install(ds) ==
    /\ role' = ds.role
    /\ stream_ids' = ds.stream_ids
    /\ output' = ds.output
    /\ input' = ds.input
    /\ listener' = ds.listener
    /\ senders' = ds.senders
    /\ recvers' = ds.recvers
    /\ io_states' = ds.io_states
    /\ ctrl_frames' = ds.ctrl_frames
    /\ UNCHANGED <<rxvars, txvars, libvars>>

RECURSIVE Asc(_)
Asc(S) == IF S = {} THEN <<>> ELSE <<SetMin(S)>> \o Asc(S \ {SetMin(S)})
WithTokens(seq, tokens) == [i \in 1..Len(seq) |-> [sid |-> seq[i], tokens |-> tokens]]

\* DataStreams::new
new(r) ==
    [role |-> r,
     stream_ids |-> [remote_max |-> [d \in Dirs |-> IF d = "Bi" THEN InitMaxStreamsBidi
                                                     ELSE InitMaxStreamsUni],
                     remote_unallocated |-> [d \in Dirs |-> 0],
                     local_max |-> [d \in Dirs |-> 0],
                     local_next |-> [d \in Dirs |-> 0],
                     ended |-> [sid \in AllSids |-> 0]],
     output |-> [err |-> NoErr, outgoings |-> {}, last_sent_stream |-> None],
     input |-> [err |-> NoErr, incomings |-> {}],
     listener |-> [err |-> NoErr, bi |-> <<>>, uni |-> <<>>],
     senders |-> [sid \in AllSids |-> None],
     recvers |-> [sid \in AllSids |-> None],
     io_states |-> [sid \in AllSids |-> None],
     ctrl_frames |-> <<>>]

\* streams, were every call to start from the lowest stream with fresh tokens
streams_from_first(out) == WithTokens(Asc(out.outgoings), DEFAULT_TOKENS)

\* streams, were the last-served stream the only one asked while it has
\* tokens left
streams_last_only(out) ==
    LET last == out.last_sent_stream IN
    IF last = None THEN WithTokens(Asc(out.outgoings), DEFAULT_TOKENS)
    ELSE IF last.tokens = 0
    THEN WithTokens(Asc({x \in out.outgoings : x > last.sid})
                        \o Asc({x \in out.outgoings : x <= last.sid}), DEFAULT_TOKENS)
    ELSE IF last.sid \in out.outgoings THEN <<[sid |-> last.sid, tokens |-> last.tokens]>>
    ELSE WithTokens(Asc({x \in out.outgoings : x > last.sid})
                        \o Asc({x \in out.outgoings : x < last.sid}), DEFAULT_TOKENS)

\* try_read_data, lines 183-209: the streams in the order they are asked,
\* each with the tokens it is offered
streams(out) ==
    LET last == out.last_sent_stream IN
    IF last = None THEN WithTokens(Asc(out.outgoings), DEFAULT_TOKENS)
    ELSE IF last.tokens = 0
    THEN WithTokens(Asc({x \in out.outgoings : x > last.sid})
                        \o Asc({x \in out.outgoings : x <= last.sid}), DEFAULT_TOKENS)
    ELSE (IF last.sid \in out.outgoings THEN <<[sid |-> last.sid, tokens |-> last.tokens]>>
          ELSE <<>>)
         \o WithTokens(Asc({x \in out.outgoings : x > last.sid})
                           \o Asc({x \in out.outgoings : x < last.sid}), DEFAULT_TOKENS)

\* fresh_bytes, were retransmitted bytes counted as well
data_bytes(is_fresh, data_len) == data_len

\* try_read_data, line 215: the bytes that count against the connection's
\* flow credit
fresh_bytes(is_fresh, data_len) == IF is_fresh THEN data_len ELSE 0

\* the loop, were the tokens offered recorded whole for the stream served
RECURSIVE try_read_streams_unspent(_, _, _, _)
try_read_streams_unspent(ds, ss, buf_len, flow_limit) ==
    IF ss = <<>> THEN [ds |-> ds, ret |-> None]
    ELSE Only({
        IF r # None
        THEN [ds |-> [ds EXCEPT
                        !.senders[Head(ss).sid] = r.snd,
                        !.output.last_sent_stream =
                            [sid |-> Head(ss).sid, tokens |-> Head(ss).tokens]],
              ret |-> [frame |-> r.frame, written |-> r.written,
                       fresh |-> fresh_bytes(r.is_fresh, r.data_len),
                       tokens |-> Head(ss).tokens]]
        ELSE try_read_streams_unspent(ds, Tail(ss), buf_len, flow_limit)
        : r \in {Outgoing_try_read(ds.senders[Head(ss).sid], Head(ss).sid, buf_len,
                                   Head(ss).tokens, flow_limit)}})

RECURSIVE try_read_streams(_, _, _, _)
\* try_read_data, lines 210-218: the first of the streams that hands out a
\* frame is served and recorded as the last sent stream
try_read_streams(ds, ss, buf_len, flow_limit) ==
    IF ss = <<>> THEN [ds |-> ds, ret |-> None]
    ELSE Only({
        IF r # None
        THEN [ds |-> [ds EXCEPT
                        !.senders[Head(ss).sid] = r.snd,
                        !.output.last_sent_stream =
                            [sid |-> Head(ss).sid, tokens |-> Head(ss).tokens - r.data_len]],
              ret |-> [frame |-> r.frame, written |-> r.written,
                       fresh |-> fresh_bytes(r.is_fresh, r.data_len),
                       tokens |-> Head(ss).tokens]]
        ELSE try_read_streams(ds, Tail(ss), buf_len, flow_limit)
        : r \in {Outgoing_try_read(ds.senders[Head(ss).sid], Head(ss).sid, buf_len,
                                   Head(ss).tokens, flow_limit)}})

\* DataStreams::try_read_data
try_read_data(ds, buf_len, flow_limit) ==
    IF buf_len < STREAM_FRAME_MAX_ENCODING_SIZE + 1 THEN [ds |-> ds, ret |-> None]
    ELSE IF ds.output.err # NoErr THEN [ds |-> ds, ret |-> None]
    ELSE Only({try_read_streams(ds, ss, buf_len, flow_limit) : ss \in {streams(ds.output)}})

\* on_data_acked, were the stream dropped on every acknowledgment
on_data_acked_eager(ds, frame) ==
    IF ds.output.err # NoErr THEN ds
    ELSE IF frame.id \notin ds.output.outgoings THEN ds
    ELSE [ds EXCEPT !.senders[frame.id] =
                        Outgoing_on_data_acked(@, frame.offset, frame.offset + frame.len,
                                               frame.fin).snd,
                    !.output.outgoings = @ \ {frame.id}]

\* DataStreams::on_data_acked
on_data_acked(ds, frame) ==
    IF ds.output.err # NoErr THEN ds
    ELSE IF frame.id \notin ds.output.outgoings THEN ds
    ELSE LET a == Outgoing_on_data_acked(ds.senders[frame.id], frame.offset,
                                         frame.offset + frame.len, frame.fin)
             io == shutdown_send(ds.io_states[frame.id])
         IN IF ~ a.all THEN [ds EXCEPT !.senders[frame.id] = a.snd]
            ELSE [ds EXCEPT !.senders[frame.id] = a.snd,
                            !.io_states[frame.id] = io,
                            !.stream_ids = IF is_terminated(io)
                                           THEN on_end_of_stream(ds.stream_ids, frame.id)
                                           ELSE ds.stream_ids,
                            !.output.outgoings = @ \ {frame.id}]

\* may_loss_data, were the report dropped
may_loss_data_ignored(ds, frame) == ds

\* DataStreams::may_loss_data
may_loss_data(ds, frame) ==
    IF ds.output.err # NoErr \/ frame.id \notin ds.output.outgoings THEN ds
    ELSE [ds EXCEPT !.senders[frame.id] =
              Outgoing_may_loss_data(@, frame.offset, frame.offset + frame.len)]

\* DataStreams::on_reset_acked
on_reset_acked(ds, sid) ==
    IF ds.output.err # NoErr \/ sid \notin ds.output.outgoings THEN ds
    ELSE LET io == shutdown_send(ds.io_states[sid])
         IN [ds EXCEPT !.output.outgoings = @ \ {sid},
                       !.senders[sid] = Outgoing_on_reset_acked(@),
                       !.io_states[sid] = io,
                       !.stream_ids = IF is_terminated(io)
                                      THEN on_end_of_stream(ds.stream_ids, sid)
                                      ELSE ds.stream_ids]

SeqRange(q) == {q[i] : i \in 1..Len(q)}
Ok(n) == [ok |-> TRUE, n |-> n]
Err(kind, fty) == [ok |-> FALSE, kind |-> kind, fty |-> fty]

\* wrapper_error, were the error always tagged STREAM
wrapper_error_stream(fty) == Err("StreamLimit", "STREAM")

\* wrapper_error: the connection error an ExceedLimitError becomes
wrapper_error(fty) == Err("StreamLimit", fty)

\* DataStreams::create_sender, DataStreams::create_recver
create_sender(sid, wnd_size) == NewSender(wnd_size)
create_recver(sid, buf_size) == NewRecver(buf_size)

\* accept_new_bi, were only the stream the frame names created
accept_named_bi(ds, need_create) ==
    LET sid == need_create[Len(need_create)]
    IN [ds EXCEPT
          !.recvers[sid] = create_recver(sid, RcvBufSize),
          !.senders[sid] = create_sender(sid, 0),
          !.io_states[sid] = IOState_bidirection,
          !.input.incomings = @ \cup {sid},
          !.output.outgoings = @ \cup {sid},
          !.listener.bi = Append(@, sid)]

\* accept_new_bi, were the sender given the receive buffer's size as window
accept_new_bi_rcv_wnd(ds, need_create) ==
    LET need == SeqRange(need_create)
    IN [ds EXCEPT
          !.recvers = [x \in AllSids |-> IF x \in need THEN create_recver(x, RcvBufSize)
                                         ELSE ds.recvers[x]],
          !.senders = [x \in AllSids |-> IF x \in need THEN create_sender(x, RcvBufSize)
                                         ELSE ds.senders[x]],
          !.io_states = [x \in AllSids |-> IF x \in need THEN IOState_bidirection
                                           ELSE ds.io_states[x]],
          !.input.incomings = @ \cup need,
          !.output.outgoings = @ \cup need,
          !.listener.bi = @ \o need_create]

\* try_accept_bi_sid, lines 573-584: every stream of need_create gets both
\* halves, the sender with window 0, and is pushed to the listener
accept_new_bi(ds, need_create) ==
    LET need == SeqRange(need_create)
    IN [ds EXCEPT
          !.recvers = [x \in AllSids |-> IF x \in need THEN create_recver(x, RcvBufSize)
                                         ELSE ds.recvers[x]],
          !.senders = [x \in AllSids |-> IF x \in need THEN create_sender(x, 0)
                                         ELSE ds.senders[x]],
          !.io_states = [x \in AllSids |-> IF x \in need THEN IOState_bidirection
                                           ELSE ds.io_states[x]],
          !.input.incomings = @ \cup need,
          !.output.outgoings = @ \cup need,
          !.listener.bi = @ \o need_create]

\* try_accept_uni_sid, lines 600-610
accept_new_uni(ds, need_create) ==
    LET need == SeqRange(need_create)
    IN [ds EXCEPT
          !.recvers = [x \in AllSids |-> IF x \in need THEN create_recver(x, RcvBufSize)
                                         ELSE ds.recvers[x]],
          !.io_states = [x \in AllSids |-> IF x \in need THEN IOState_receive_only
                                           ELSE ds.io_states[x]],
          !.input.incomings = @ \cup need,
          !.listener.uni = @ \o need_create]

\* DataStreams::try_accept_bi_sid
try_accept_bi_sid(ds, sid) ==
    IF ds.output.err # NoErr \/ ds.input.err # NoErr \/ ds.listener.err # NoErr
    THEN [ds |-> ds, exceed |-> FALSE]
    ELSE LET result == remote_try_accept_sid(ds.stream_ids, sid)
         IN IF result.kind = "ExceedLimit" THEN [ds |-> ds, exceed |-> TRUE]
            ELSE IF result.kind = "Old" THEN [ds |-> ds, exceed |-> FALSE]
            ELSE [ds |-> accept_new_bi([ds EXCEPT !.stream_ids = result.ids],
                                       result.need_create),
                  exceed |-> FALSE]

\* DataStreams::try_accept_uni_sid
try_accept_uni_sid(ds, sid) ==
    IF ds.input.err # NoErr \/ ds.listener.err # NoErr
    THEN [ds |-> ds, exceed |-> FALSE]
    ELSE LET result == remote_try_accept_sid(ds.stream_ids, sid)
         IN IF result.kind = "ExceedLimit" THEN [ds |-> ds, exceed |-> TRUE]
            ELSE IF result.kind = "Old" THEN [ds |-> ds, exceed |-> FALSE]
            ELSE [ds |-> accept_new_uni([ds EXCEPT !.stream_ids = result.ids],
                                        result.need_create),
                  exceed |-> FALSE]

\* DataStreams::try_accept_sid
try_accept_sid(ds, sid) ==
    IF Dir(sid) = "Bi" THEN try_accept_bi_sid(ds, sid) ELSE try_accept_uni_sid(ds, sid)

\* DataStreams::recv_data: a STREAM frame from the peer
recv_data(ds, f) ==
    LET sid == f.id
        acc == IF Role(sid) # ds.role THEN try_accept_sid(ds, sid)
               ELSE [ds |-> ds, exceed |-> FALSE]
        d1 == acc.ds
    IN IF acc.exceed THEN [ds |-> ds, ret |-> wrapper_error("STREAM")]
       ELSE IF Role(sid) = ds.role /\ Dir(sid) = "Uni"
       THEN [ds |-> ds, ret |-> Err("StreamState", "STREAM")]
       ELSE IF d1.input.err # NoErr \/ sid \notin d1.input.incomings
       THEN [ds |-> d1, ret |-> Ok(0)]
       ELSE LET r == Incoming_recv_data(d1.recvers[sid], f)
            IN [ds |-> [d1 EXCEPT !.recvers[sid] = r.rcv],
                ret |-> IF r.err = NoErr THEN Ok(r.new) ELSE Err(r.err, "STREAM")]

\* recv_reset_stream, were the stream looked up and left in the map
recv_reset_stream_kept(ds, f) ==
    LET sid == f.id
        acc == IF Role(sid) # ds.role THEN try_accept_sid(ds, sid)
               ELSE [ds |-> ds, exceed |-> FALSE]
        d1 == acc.ds
    IN IF acc.exceed THEN [ds |-> ds, ret |-> wrapper_error("RESET_STREAM")]
       ELSE IF Role(sid) = ds.role /\ Dir(sid) = "Uni"
       THEN [ds |-> ds, ret |-> Err("StreamState", "RESET_STREAM")]
       ELSE IF d1.input.err # NoErr \/ sid \notin d1.input.incomings
       THEN [ds |-> d1, ret |-> Ok(0)]
       ELSE LET r == Incoming_recv_reset(d1.recvers[sid], f.final_size)
                d2 == [d1 EXCEPT !.recvers[sid] = r.rcv]
                io == shutdown_receive(d1.io_states[sid])
            IN IF r.err # NoErr THEN [ds |-> d2, ret |-> Err(r.err, "RESET_STREAM")]
               ELSE [ds |-> [d2 EXCEPT !.io_states[sid] = io], ret |-> Ok(0)]

\* recv_stream_control, lines 328-353: RESET_STREAM
recv_reset_stream(ds, f) ==
    LET sid == f.id
        acc == IF Role(sid) # ds.role THEN try_accept_sid(ds, sid)
               ELSE [ds |-> ds, exceed |-> FALSE]
        d1 == acc.ds
    IN IF acc.exceed THEN [ds |-> ds, ret |-> wrapper_error("RESET_STREAM")]
       ELSE IF Role(sid) = ds.role /\ Dir(sid) = "Uni"
       THEN [ds |-> ds, ret |-> Err("StreamState", "RESET_STREAM")]
       ELSE IF d1.input.err # NoErr \/ sid \notin d1.input.incomings
       THEN [ds |-> d1, ret |-> Ok(0)]
       ELSE LET r == Incoming_recv_reset(d1.recvers[sid], f.final_size)
                d2 == [d1 EXCEPT !.input.incomings = @ \ {sid}, !.recvers[sid] = r.rcv]
                io == shutdown_receive(d1.io_states[sid])
            IN IF r.err # NoErr THEN [ds |-> d2, ret |-> Err(r.err, "RESET_STREAM")]
               ELSE [ds |-> [d2 EXCEPT
                               !.io_states[sid] = io,
                               !.stream_ids = IF is_terminated(io)
                                              THEN on_end_of_stream(d1.stream_ids, sid)
                                              ELSE d1.stream_ids],
                     ret |-> Ok(0)]

\* recv_stop_sending, were a RESET_STREAM queued whatever Outgoing::stop says
recv_stop_sending_always(ds, f) ==
    LET sid == f.id
        peer_uni == Role(sid) # ds.role /\ Dir(sid) = "Uni"
        acc == IF Role(sid) # ds.role /\ ~ peer_uni THEN try_accept_sid(ds, sid)
               ELSE [ds |-> ds, exceed |-> FALSE]
        d1 == acc.ds
    IN IF peer_uni THEN [ds |-> ds, ret |-> Err("StreamState", "STOP_SENDING")]
       ELSE IF acc.exceed THEN [ds |-> ds, ret |-> wrapper_error("STOP_SENDING")]
       ELSE IF d1.output.err # NoErr \/ sid \notin d1.output.outgoings
       THEN [ds |-> d1, ret |-> Ok(0)]
       ELSE [ds |-> [d1 EXCEPT
                       !.senders[sid] = Outgoing_stop(@).snd,
                       !.ctrl_frames = Append(@, [type |-> "RESET_STREAM", id |-> sid,
                                                  app_error_code |-> 0, final_size |-> 0])],
             ret |-> Ok(0)]

\* recv_stream_control, lines 354-387: STOP_SENDING
recv_stop_sending(ds, f) ==
    LET sid == f.id
        peer_uni == Role(sid) # ds.role /\ Dir(sid) = "Uni"
        acc == IF Role(sid) # ds.role /\ ~ peer_uni THEN try_accept_sid(ds, sid)
               ELSE [ds |-> ds, exceed |-> FALSE]
        d1 == acc.ds
    IN IF peer_uni THEN [ds |-> ds, ret |-> Err("StreamState", "STOP_SENDING")]
       ELSE IF acc.exceed THEN [ds |-> ds, ret |-> wrapper_error("STOP_SENDING")]
       ELSE IF d1.output.err # NoErr \/ sid \notin d1.output.outgoings
       THEN [ds |-> d1, ret |-> Ok(0)]
       ELSE LET r == Outgoing_stop(d1.senders[sid])
            IN [ds |-> [d1 EXCEPT
                          !.senders[sid] = r.snd,
                          !.ctrl_frames =
                              IF r.stopped
                              THEN Append(@, [type |-> "RESET_STREAM", id |-> sid,
                                              app_error_code |-> 0, final_size |-> 0])
                              ELSE @],
                ret |-> Ok(0)]

\* recv_max_stream_data, were the stream accepted before its direction is
\* looked at
recv_max_stream_data_unchecked(ds, f) ==
    LET sid == f.id
        acc == IF Role(sid) # ds.role THEN try_accept_sid(ds, sid)
               ELSE [ds |-> ds, exceed |-> FALSE]
        d1 == acc.ds
    IN IF acc.exceed THEN [ds |-> ds, ret |-> wrapper_error("MAX_STREAM_DATA")]
       ELSE IF d1.output.err # NoErr \/ sid \notin d1.output.outgoings
       THEN [ds |-> d1, ret |-> Ok(0)]
       ELSE [ds |-> [d1 EXCEPT !.senders[sid] = Outgoing_update_window(@, f.max_stream_data)],
             ret |-> Ok(0)]

\* recv_stream_control, lines 388-414: MAX_STREAM_DATA
recv_max_stream_data(ds, f) ==
    LET sid == f.id
        peer_uni == Role(sid) # ds.role /\ Dir(sid) = "Uni"
        acc == IF Role(sid) # ds.role /\ ~ peer_uni THEN try_accept_sid(ds, sid)
               ELSE [ds |-> ds, exceed |-> FALSE]
        d1 == acc.ds
    IN IF peer_uni THEN [ds |-> ds, ret |-> Err("StreamState", "MAX_STREAM_DATA")]
       ELSE IF acc.exceed THEN [ds |-> ds, ret |-> wrapper_error("MAX_STREAM_DATA")]
       ELSE IF d1.output.err # NoErr \/ sid \notin d1.output.outgoings
       THEN [ds |-> d1, ret |-> Ok(0)]
       ELSE [ds |-> [d1 EXCEPT !.senders[sid] = Outgoing_update_window(@, f.max_stream_data)],
             ret |-> Ok(0)]

\* recv_stream_control, lines 415-432: STREAM_DATA_BLOCKED
recv_stream_data_blocked(ds, f) ==
    LET sid == f.id
        acc == IF Role(sid) # ds.role THEN try_accept_sid(ds, sid)
               ELSE [ds |-> ds, exceed |-> FALSE]
    IN IF acc.exceed THEN [ds |-> ds, ret |-> wrapper_error("STREAM_DATA_BLOCKED")]
       ELSE IF Role(sid) = ds.role /\ Dir(sid) = "Uni"
       THEN [ds |-> ds, ret |-> Err("StreamState", "STREAM_DATA_BLOCKED")]
       ELSE [ds |-> acc.ds, ret |-> Ok(0)]

\* DataStreams::recv_stream_control
recv_stream_control(ds, f) ==
    CASE f.type = "RESET_STREAM" -> recv_reset_stream(ds, f)
      [] f.type = "STOP_SENDING" -> recv_stop_sending(ds, f)
      [] f.type = "MAX_STREAM_DATA" -> recv_max_stream_data(ds, f)
      [] f.type = "STREAM_DATA_BLOCKED" -> recv_stream_data_blocked(ds, f)
      [] f.type = "MAX_STREAMS" ->
            [ds |-> [ds EXCEPT !.stream_ids =
                        local_recv_max_streams(@, f.dir, f.max_streams)],
             ret |-> Ok(0)]
      [] f.type = "STREAMS_BLOCKED" -> [ds |-> ds, ret |-> Ok(0)]

\* on_conn_error, were the error of a later call stored over the first
on_conn_error_replacing(ds, e) ==
    [ds EXCEPT !.output.err = e, !.input.err = e, !.listener.err = e]

\* DataStreams::on_conn_error: the three guards are taken before any map is
\* touched and held to the end (lines 450-465), so the three maps change in
\* one step; a map that already holds an error makes the call return
on_conn_error(ds, e) ==
    IF ds.output.err # NoErr \/ ds.input.err # NoErr \/ ds.listener.err # NoErr THEN ds
    ELSE [ds EXCEPT !.output.err = e, !.input.err = e, !.listener.err = e]

\* DataStreams::poll_open_bi_stream
poll_open_bi_stream(ds, snd_wnd_size) ==
    IF ds.output.err # NoErr THEN [ds |-> ds, ret |-> Err(ds.output.err, "open")]
    ELSE IF ds.input.err # NoErr THEN [ds |-> ds, ret |-> Err(ds.input.err, "open")]
    ELSE IF ds.stream_ids.local_next["Bi"] >= ds.stream_ids.local_max["Bi"]
    THEN [ds |-> ds, ret |-> [pending |-> TRUE]]
    ELSE LET sid == Sid(ds.role, "Bi", ds.stream_ids.local_next["Bi"])
         IN [ds |-> [ds EXCEPT
                       !.stream_ids.local_next["Bi"] = @ + 1,
                       !.senders[sid] = create_sender(sid, snd_wnd_size),
                       !.recvers[sid] = create_recver(sid, RcvBufSize),
                       !.io_states[sid] = IOState_bidirection,
                       !.output.outgoings = @ \cup {sid},
                       !.input.incomings = @ \cup {sid}],
             ret |-> Ok(sid)]

\* DataStreams::poll_open_uni_stream
poll_open_uni_stream(ds, snd_wnd_size) ==
    IF ds.output.err # NoErr THEN [ds |-> ds, ret |-> Err(ds.output.err, "open")]
    ELSE IF ds.stream_ids.local_next["Uni"] >= ds.stream_ids.local_max["Uni"]
    THEN [ds |-> ds, ret |-> [pending |-> TRUE]]
    ELSE LET sid == Sid(ds.role, "Uni", ds.stream_ids.local_next["Uni"])
         IN [ds |-> [ds EXCEPT
                       !.stream_ids.local_next["Uni"] = @ + 1,
                       !.senders[sid] = create_sender(sid, snd_wnd_size),
                       !.io_states[sid] = IOState_send_only,
                       !.output.outgoings = @ \cup {sid}],
             ret |-> Ok(sid)]

\* DataStreams::accept_bi: the application takes the next stream the peer
\* opened; its sender gets the send window the application passes
accept_bi(ds, snd_wnd_size) ==
    IF ds.listener.err # NoErr THEN [ds |-> ds, ret |-> Err(ds.listener.err, "accept")]
    ELSE IF ds.listener.bi = <<>> THEN [ds |-> ds, ret |-> [pending |-> TRUE]]
    ELSE LET sid == Head(ds.listener.bi)
         IN [ds |-> [ds EXCEPT !.listener.bi = Tail(@),
                               !.senders[sid] = Outgoing_update_window(@, snd_wnd_size)],
             ret |-> Ok(sid)]

\* DataStreams::accept_uni
accept_uni(ds) ==
    IF ds.listener.err # NoErr THEN [ds |-> ds, ret |-> Err(ds.listener.err, "accept")]
    ELSE IF ds.listener.uni = <<>> THEN [ds |-> ds, ret |-> [pending |-> TRUE]]
    ELSE [ds |-> [ds EXCEPT !.listener.uni = Tail(@)], ret |-> Ok(Head(ds.listener.uni))]

(***************************************************************************)
(* The frames the peer may send.                                           *)
(***************************************************************************)
StreamFrames ==
    [id : AllSids, offset : RcvOffsets, len : RcvLens, fin : BOOLEAN]
StreamCtlFrames ==
    [type : {"RESET_STREAM"}, id : AllSids, final_size : RcvFinalSizes]
    \cup [type : {"STOP_SENDING", "STREAM_DATA_BLOCKED"}, id : AllSids]
    \cup [type : {"MAX_STREAM_DATA"}, id : AllSids, max_stream_data : MaxStreamDataVals]
    \cup [type : {"MAX_STREAMS"}, dir : Dirs, max_streams : MaxStreamsVals]
    \cup [type : {"STREAMS_BLOCKED"}, dir : Dirs]
\* the frames that bear on the sending halves: on the first bidirectional
\* stream of either side
SendSids(r) == {Sid(r, "Bi", 0), Sid(Peer(r), "Bi", 0)}
SendCtlFrames ==
    {f \in StreamCtlFrames :
        \/ f.type = "MAX_STREAMS" /\ f.dir = "Bi"
        \/ f.type \in {"STOP_SENDING", "MAX_STREAM_DATA"} /\ f.id \in SendSids(role)
        \/ f.type = "STREAM_DATA_BLOCKED" /\ f.id = Sid(Peer(role), "Bi", 0)}

\* the frames of the runs that follow a loss: the peer lets a stream be
\* opened, opens one of its own, and stops the stream opened locally
LiveCtlFrames ==
    {f \in SendCtlFrames :
        \/ f.type = "MAX_STREAMS"
        \/ f.type = "STREAM_DATA_BLOCKED"
        \/ f.type = "STOP_SENDING" /\ Role(f.id) = role}

\* the frames of the runs in which streams wait to be served: the peer lets
\* a stream be opened and opens its first two
ServeCtlFrames ==
    {f \in StreamCtlFrames :
        \/ f.type = "MAX_STREAMS" /\ f.dir = "Bi"
        \/ f.type = "STREAM_DATA_BLOCKED" /\ f.id = Sid(Peer(role), "Bi", 1)}

(***************************************************************************)
(* Bookkeeping of a run, read by the properties only.                      *)
(***************************************************************************)
\* the streams that would hand try_read_data a frame
Eligible(ds, buf_len, flow_limit) ==
    IF buf_len < STREAM_FRAME_MAX_ENCODING_SIZE + 1 \/ ds.output.err # NoErr THEN {}
    ELSE {sid \in ds.output.outgoings :
            Outgoing_try_read(ds.senders[sid], sid, buf_len, DEFAULT_TOKENS, flow_limit) # None}
\* the streams the operation created and pushed to the listener
Delivered(d, ds) ==
    [hist EXCEPT
        !.delivered_bi = @ \o SubSeq(d.listener.bi, Len(ds.listener.bi) + 1, Len(d.listener.bi)),
        !.delivered_uni = @ \o SubSeq(d.listener.uni, Len(ds.listener.uni) + 1, Len(d.listener.uni))]

\* the bytes declared lost that are still owed a retransmission once the
\* engine is in ds: none on a stream that is reset or gone, none acknowledged
Owed(owed, ds) ==
    [sid \in AllSids |->
        IF /\ ds.output.err = NoErr
           /\ sid \in ds.output.outgoings
           /\ ds.senders[sid].st \in {"Sending", "DataSent"}
        THEN SubRanges(owed[sid], ds.senders[sid].acked) ELSE {}]

\* the engine as DataStreams::new leaves it
DsStart ==
    /\ \E r \in LocalRoles :
        /\ role = new(r).role
        /\ stream_ids = new(r).stream_ids
        /\ output = new(r).output
        /\ input = new(r).input
        /\ listener = new(r).listener
        /\ senders = new(r).senders
        /\ recvers = new(r).recvers
        /\ io_states = new(r).io_states
        /\ ctrl_frames = new(r).ctrl_frames
    /\ sent_journal = {}
    /\ hist = [delivered_bi |-> <<>>, delivered_uni |-> <<>>,
               advertised |-> [sid \in AllSids |-> 0],
               run |-> [sid |-> -1, bytes |-> 0],
               owed |-> [sid \in AllSids |-> {}],
               writes |-> 0, reads |-> 0, losses |-> 0, frames |-> 0]

\* the protocol layer asks for a STREAM frame and records it in its journal
TryReadDataWith(max_reads, flow_limits) ==
    \E buf_len \in BufLens, flow_limit \in flow_limits :
        \E r \in {try_read_data(DS, buf_len, flow_limit)} :
        /\ hist.reads < max_reads
        /\ Cardinality(sent_journal) < MaxInflight
        /\ Install(r.ds)
        /\ sent_journal' = IF r.ret = None THEN sent_journal
                           ELSE sent_journal \cup {r.ret.frame}
        /\ hist' = IF r.ret = None THEN hist
                   ELSE [hist EXCEPT
                           !.reads = @ + 1,
                           !.owed[r.ret.frame.id] =
                               SubRange(@, r.ret.frame.offset,
                                        r.ret.frame.offset + r.ret.frame.len),
                           !.run = IF /\ r.ret.frame.id = hist.run.sid
                                      /\ Cardinality(Eligible(DS, buf_len, flow_limit)) >= 2
                                   THEN [sid |-> r.ret.frame.id,
                                         bytes |-> hist.run.bytes + r.ret.frame.len]
                                   ELSE [sid |-> r.ret.frame.id, bytes |-> r.ret.frame.len]]

TryReadDataWithin(max_reads) == TryReadDataWith(max_reads, FlowLimits)
TryReadData == TryReadDataWithin(MaxReads)

\* a packet carrying a STREAM frame is acknowledged
OnDataAcked ==
    \E f \in sent_journal :
        \E d \in {on_data_acked(DS, f)} :
        /\ Install(d)
        /\ sent_journal' = sent_journal \ {f}
        /\ hist' = [hist EXCEPT !.owed = Owed(@, d)]

\* a packet carrying a STREAM frame is declared lost
MayLossData ==
    \E f \in sent_journal :
        /\ hist.losses < MaxLosses
        /\ Install(may_loss_data(DS, f))
        /\ sent_journal' = sent_journal \ {f}
        /\ hist' = [hist EXCEPT
                      !.losses = @ + 1,
                      !.owed = Owed([@ EXCEPT ![f.id] =
                                        Normalise(@ \cup Outside(senders[f.id].acked, f.offset,
                                                                 f.offset + f.len))],
                                    DS)]

\* a packet carrying a RESET_STREAM frame of the sink is acknowledged
OnResetAcked ==
    \E i \in 1..Len(ctrl_frames) :
        /\ ctrl_frames[i].type = "RESET_STREAM"
        /\ Install(on_reset_acked(DS, ctrl_frames[i].id))
        /\ hist' = [hist EXCEPT !.owed = Owed(@, on_reset_acked(DS, ctrl_frames[i].id))]
        /\ UNCHANGED sent_journal

\* a STREAM frame arrives
RecvData ==
    \E f \in StreamFrames :
        LET r == recv_data(DS, f) IN
        /\ hist.frames < MaxFrames
        /\ Install(r.ds)
        /\ hist' = [Delivered(r.ds, DS) EXCEPT !.frames = IF r.ds # DS THEN @ + 1 ELSE @]
        /\ UNCHANGED sent_journal

\* a stream control frame of F arrives
RecvCtl(F) ==
    \E f \in F :
        LET r == recv_stream_control(DS, f)
            h == [Delivered(r.ds, DS) EXCEPT !.frames = IF r.ds # DS THEN @ + 1 ELSE @,
                                             !.owed = Owed(@, r.ds)] IN
        /\ hist.frames < MaxFrames
        /\ Install(r.ds)
        /\ hist' = IF f.type = "MAX_STREAM_DATA" /\ r.ret.ok /\ r.ds.senders[f.id] # None
                   THEN [h EXCEPT !.advertised[f.id] = Max(@, f.max_stream_data)]
                   ELSE h
        /\ UNCHANGED sent_journal
RecvStreamControl == RecvCtl(StreamCtlFrames)
RecvSendControl == RecvCtl(SendCtlFrames)
RecvLiveControl == RecvCtl(LiveCtlFrames)
RecvServeControl == RecvCtl(ServeCtlFrames)

OnConnError ==
    \E e \in ConnErrs :
        /\ Install(on_conn_error(DS, e))
        /\ UNCHANGED <<sent_journal, hist>>

OpenBiStream ==
    \E w \in WndSizes :
        LET r == poll_open_bi_stream(DS, w) IN
        /\ Install(r.ds)
        /\ hist' = IF r.ds # DS THEN [hist EXCEPT !.advertised[r.ret.n] = Max(@, w)] ELSE hist
        /\ UNCHANGED sent_journal

OpenUniStream ==
    \E w \in WndSizes :
        LET r == poll_open_uni_stream(DS, w) IN
        /\ Install(r.ds)
        /\ hist' = IF r.ds # DS THEN [hist EXCEPT !.advertised[r.ret.n] = Max(@, w)] ELSE hist
        /\ UNCHANGED sent_journal

AcceptBi ==
    \E w \in WndSizes :
        LET r == accept_bi(DS, w) IN
        /\ Install(r.ds)
        /\ hist' = IF r.ds # DS THEN [hist EXCEPT !.advertised[r.ret.n] = Max(@, w)] ELSE hist
        /\ UNCHANGED sent_journal

AcceptUni ==
    /\ Install(accept_uni(DS).ds)
    /\ UNCHANGED <<sent_journal, hist>>

\* the application writes to a stream it holds the Writer of
WriteWithin(max_writes) ==
    \E sid \in AllSids, n \in WriteLens :
        /\ senders[sid] # None
        /\ sid \notin SeqRange(listener.bi)
        /\ hist.writes < max_writes
        /\ Writer_write_len(senders[sid], n) > 0
        /\ senders' = [senders EXCEPT ![sid] = Writer_write(@, n)]
        /\ hist' = [hist EXCEPT !.writes = @ + 1]
        /\ UNCHANGED <<role, stream_ids, output, input, listener, recvers, io_states,
                       ctrl_frames, sent_journal>>
        /\ UNCHANGED <<rxvars, txvars, libvars>>
Write == WriteWithin(MaxWrites)

\* the application ends a stream it holds the Writer of
Shutdown ==
    \E sid \in AllSids :
        /\ senders[sid] # None
        /\ sid \notin SeqRange(listener.bi)
        /\ senders[sid].st \in {"Ready", "Sending"}
        /\ senders' = [senders EXCEPT ![sid] = Writer_shutdown(@)]
        /\ UNCHANGED <<role, stream_ids, output, input, listener, recvers, io_states,
                       ctrl_frames, sent_journal, hist>>
        /\ UNCHANGED <<rxvars, txvars, libvars>>

(***************************************************************************)
(* The Handshake packet-number space                                       *)
(* (qconnection/src/conn/space/handshake.rs, HandshakeSpace).              *)
(*                                                                         *)
(* build() spawns the receive task; the task takes packets from the queue, *)
(* waits for the remote keys, removes the protection of a packet, parses   *)
(* its frames and dispatches them.  The keys, the journals, the paths, the *)
(* congestion controller, the connection error and the frame reader live   *)
(* in other crates; they are modelled from the specification by what the   *)
(* calls of this file observe of them.                                     *)
(***************************************************************************)
\* packets that arrive over a run
MaxPackets == 2
\* HandshakeJournal::with_capacity(16): the window of the received journal
JournalCapacity == 16

Pending == [is_pending |-> TRUE]
Pathways == {"A", "B"}
\* packet numbers of received packets: two in the window, one far beyond it
RcvdPns == {0, 1, 40}
\* what HandshakeTracker::retire is given
RetirePns == {0}
PacketLens == {1200}
\* a frame the reader fails to parse
BadFrame == [type |-> "Bad"]
AckOfZero == [type |-> "Ack", ranges |-> <<<<0, 0>>>>]
CryptoHello == [type |-> "Crypto", offset |-> 0, len |-> 100]
Ping == [type |-> "Ping"]
Padding == [type |-> "Padding"]
Close == [type |-> "Close"]
\* the payloads of the packets that decrypt
Payloads ==
    {<<Padding>>, <<AckOfZero, CryptoHello>>, <<Ping, Close>>,
     <<AckOfZero, CryptoHello, BadFrame, Ping>>}
\* the outcomes of remove_protection_of_long_packet: Ok(Some(pn)), Ok(None)
\* for a packet whose protection cannot be removed, Err for reserved bits
HpOutcomes == {"Pn", "Unprotectable", "InvalidReservedBits"}
\* the packets the peer (or anyone on the path) may send; the fields a step
\* never reaches are held at one value, and the second pathway and the
\* second packet number carry two payloads each
Packets ==
    {p \in [pathway : Pathways, len : PacketLens, hp : HpOutcomes, pn : RcvdPns,
            auth : BOOLEAN, frames : Payloads] :
        /\ p.hp # "Pn" => p.pn = 0 /\ p.auth
        /\ (p.hp # "Pn" \/ ~ p.auth \/ p.pn = 40) => p.frames = <<Padding>> /\ p.pathway = "A"
        /\ ~ p.auth => p.pn = 0
        /\ p.pathway = "B" =>
              p.pn = 0 /\ p.frames \in {<<Padding>>, <<AckOfZero, CryptoHello, BadFrame, Ping>>}
        /\ p.pn = 1 => p.frames \in {<<Padding>>, <<AckOfZero, CryptoHello>>}}

\* the part of the space the packet processing reads and writes
RX == [rcvd_journal |-> rcvd_journal, pathes |-> pathes, conn_error |-> conn_error,
       cc |-> cc, channels |-> channels]

\* qbase::packet::decrypt::remove_protection_of_long_packet
remove_protection_of_long_packet(p) ==
    CASE p.hp = "Pn" -> [ok |-> TRUE, some |-> TRUE, pn |-> p.pn]
      [] p.hp = "Unprotectable" -> [ok |-> TRUE, some |-> FALSE]
      [] p.hp = "InvalidReservedBits" -> [ok |-> FALSE]

\* decode_pn, were every packet number accepted
decode_pn_unchecked(j, pn) ==
    [ok |-> TRUE, pn |-> pn]

\* ArcRcvdJournal::decode_pn: TooOld below the window, TooLarge beyond it,
\* HasRcvd for a packet number already registered
decode_pn(j, pn) ==
    IF pn < j.base THEN [ok |-> FALSE, pn |-> "TooOld"]
    ELSE IF pn >= j.base + JournalCapacity THEN [ok |-> FALSE, pn |-> "TooLarge"]
    ELSE IF pn \in j.rcvd THEN [ok |-> FALSE, pn |-> "HasRcvd"]
    ELSE [ok |-> TRUE, pn |-> pn]

\* qbase::packet::decrypt::decrypt_packet: whether the tag authenticates
decrypt_packet(p) == p.auth

\* ArcRcvdJournal::register_pn
register_pn(j, pn) == [j EXCEPT !.rcvd = @ \cup {pn}]

\* ArcPaths::get_or_create, Path::on_rcvd, Path::grant_anti_amplifier
NewPath == [rcvd |-> 0, granted |-> FALSE]
get_or_create(ps, pathway) == IF ps[pathway] = None THEN [ps EXCEPT ![pathway] = NewPath] ELSE ps
on_rcvd(path, len) == [path EXCEPT !.rcvd = @ + len]
grant_anti_amplifier(path) == [path EXCEPT !.granted = TRUE]

\* what FrameReader says of a frame it parsed
is_ack_eliciting(frame) == frame.type \in {"Crypto", "Ping"}

\* the epoch on_ack is told
EpochOfAck == "Initial"
\* the epoch on_pkt_rcvd is told
EpochOfPkt == "Handshake"

\* build, lines 63-75: dispatch_frame
dispatch_frame(rx, frame, pathway) ==
    CASE frame.type = "Ack" ->
            [rx EXCEPT !.cc = Append(@, [call |-> "on_ack", epoch |-> EpochOfAck,
                                         pathway |-> pathway, frame |-> frame]),
                       !.channels.ack_frames = Append(@, frame)]
      [] frame.type = "Close" -> [rx EXCEPT !.conn_error = Append(@, "on_ccf_rcvd")]
      [] frame.type = "Crypto" -> [rx EXCEPT !.channels.crypto_frames = Append(@, frame)]
      [] OTHER -> rx

\* lines 162-169: FrameReader::try_fold stops at the first frame that fails
\* to parse; the frames before it were dispatched
RECURSIVE try_fold(_, _, _, _)
try_fold(rx, frames, pathway, is_ack_packet) ==
    IF frames = <<>> THEN [rx |-> rx, ok |-> TRUE, is_ack_packet |-> is_ack_packet,
                           dispatched |-> <<>>]
    ELSE IF Head(frames) = BadFrame
    THEN [rx |-> rx, ok |-> FALSE, is_ack_packet |-> is_ack_packet, dispatched |-> <<>>]
    ELSE Only({[r EXCEPT !.dispatched = <<Head(frames)>> \o @]
               : r \in {try_fold(dispatch_frame(rx, Head(frames), pathway), Tail(frames),
                                 pathway, is_ack_packet \/ is_ack_eliciting(Head(frames)))}})

\* lines 170-175, were the packet registered whatever the frames
register_always(rx, folded, pn, pathway) ==
    [rx EXCEPT !.rcvd_journal = register_pn(@, pn),
               !.cc = Append(@, [call |-> "on_pkt_rcvd", epoch |-> EpochOfPkt,
                                 pathway |-> pathway, pn |-> pn,
                                 ack_eliciting |-> folded.is_ack_packet])]

\* lines 170-175: the packet is registered and reported when the fold ended
\* Ok, the error is raised when it ended Err
register_or_raise(rx, folded, pn, pathway) ==
    IF folded.ok
    THEN [rx EXCEPT !.rcvd_journal = register_pn(@, pn),
                    !.cc = Append(@, [call |-> "on_pkt_rcvd", epoch |-> EpochOfPkt,
                                      pathway |-> pathway, pn |-> pn,
                                      ack_eliciting |-> folded.is_ack_packet])]
    ELSE [rx EXCEPT !.conn_error = Append(@, "FrameEncodingError")]

\* lines 150-175: the packet decrypted
parse_decrypted(rx, p, pn) ==
    Only({Only({[rx |-> register_or_raise(folded.rx, folded, pn, p.pathway),
                 ctl |-> "continue",
                 how |-> IF folded.ok THEN "registered" ELSE "parse_error",
                 dispatched |-> folded.dispatched]
                : folded \in {try_fold(r1, p.frames, p.pathway, FALSE)}})
          : r1 \in {[rx EXCEPT !.pathes =
                        [get_or_create(@, p.pathway) EXCEPT ![p.pathway] =
                            grant_anti_amplifier(on_rcvd(@, p.len))]]}})

\* lines 123-175: one packet, the keys in hand.  ctl is how the loop goes
\* on, how is the branch taken, dispatched the frames handed to dispatch_frame
parse_packet(rx, p) ==
    Only({
        IF ~ hp.ok
        THEN [rx |-> [rx EXCEPT !.conn_error = Append(@, "ProtocolViolation")],
              ctl |-> "break", how |-> "reserved_bits", dispatched |-> <<>>]
        ELSE IF ~ hp.some
        THEN [rx |-> rx, ctl |-> "continue", how |-> "dropped", dispatched |-> <<>>]
        ELSE IF ~ decode_pn(rx.rcvd_journal, hp.pn).ok
        THEN [rx |-> rx, ctl |-> "continue", how |-> "dropped", dispatched |-> <<>>]
        ELSE IF ~ decrypt_packet(p)
        THEN [rx |-> rx, ctl |-> "continue", how |-> "dropped", dispatched |-> <<>>]
        ELSE parse_decrypted(rx, p, decode_pn(rx.rcvd_journal, hp.pn).pn)
        : hp \in {remove_protection_of_long_packet(p)}})

\* rcvd_packets.next(): the head of the queue, pending on an empty queue
next(queue) == IF queue = <<>> THEN Pending ELSE Head(queue)

\* get_remote_keys, were the wait given up while the keys are pending
get_remote_keys_now(k) ==
    IF k = "Ready" THEN [remote |-> "keys"] ELSE None

\* ArcKeys::get_remote_keys: pending until the keys are installed, None once
\* they are invalidated
get_remote_keys(k) ==
    CASE k = "Pending" -> Pending
      [] k = "Ready" -> [remote |-> "keys"]
      [] k = "Invalid" -> None

\* any, were the future not raced against the notifier
any_unraced(fut, notified) ==
    IF fut # Pending THEN {fut} ELSE {}

\* super::any: the future raced against the shutdown notifier.  The set of
\* results the call may return: the future's output when it is ready, None
\* when the notifier has fired; either when both hold; empty while it waits
any(fut, notified) ==
    (IF fut # Pending THEN {fut} ELSE {}) \cup (IF notified THEN {None} ELSE {})

\* HandshakeTracker::retire, lines 344-346
retire(j, pn) == [j EXCEPT !.base = Max(@, pn + 1), !.rcvd = {x \in @ : x > pn}]

\* the state the space is built in
HsStart ==
    /\ rcvd_packets = <<>>
    /\ keys = "Pending"
    /\ notify = FALSE
    /\ task = [pc |-> "next", packet |-> None]
    /\ rcvd_journal = [base |-> 0, rcvd |-> {}]
    /\ pathes = [w \in Pathways |-> None]
    /\ conn_error = <<>>
    /\ cc = <<>>
    /\ channels = [ack_frames |-> <<>>, crypto_frames |-> <<>>]
    /\ hs_hist = [arrived |-> <<>>, begun |-> <<>>, outcomes |-> <<>>, dispatched |-> <<>>,
                  notify_at |-> "never", exit |-> "none", after_error |-> {},
                  waited |-> {}]

InstallRx(rx) ==
    /\ rcvd_journal' = rx.rcvd_journal
    /\ pathes' = rx.pathes
    /\ conn_error' = rx.conn_error
    /\ cc' = rx.cc
    /\ channels' = rx.channels

\* a Handshake packet is put on the queue
Enqueue ==
    \E p \in Packets :
        /\ Len(hs_hist.arrived) < MaxPackets
        /\ rcvd_packets' = Append(rcvd_packets, [id |-> Len(hs_hist.arrived) + 1, packet |-> p])
        /\ hs_hist' = [hs_hist EXCEPT !.arrived = Append(@, Len(hs_hist.arrived) + 1)]
        /\ UNCHANGED <<keys, notify, task, rcvd_journal, pathes, conn_error, cc, channels>>
        /\ UNCHANGED <<dsvars, txvars, libvars>>

\* the TLS layer installs the remote keys
InstallKeys ==
    /\ keys = "Pending"
    /\ keys' = "Ready"
    /\ UNCHANGED <<rcvd_packets, notify, task, rcvd_journal, pathes, conn_error, cc,
                   channels, hs_hist>>
    /\ UNCHANGED <<dsvars, txvars, libvars>>

\* the keys are invalidated (ArcKeys::invalid, line 290)
InvalidateKeys ==
    /\ keys # "Invalid"
    /\ keys' = "Invalid"
    /\ UNCHANGED <<rcvd_packets, notify, task, rcvd_journal, pathes, conn_error, cc,
                   channels, hs_hist>>
    /\ UNCHANGED <<dsvars, txvars, libvars>>

\* the connection enters closing or draining: the shutdown notifier fires
NotifyShutdown ==
    /\ ~ notify
    /\ notify' = TRUE
    /\ hs_hist' = [hs_hist EXCEPT !.notify_at = task.pc]
    /\ UNCHANGED <<rcvd_packets, keys, task, rcvd_journal, pathes, conn_error, cc, channels>>
    /\ UNCHANGED <<dsvars, txvars, libvars>>

\* the congestion controller retires received packet numbers
Retire ==
    \E pn \in RetirePns :
        /\ rcvd_journal' = retire(rcvd_journal, pn)
        /\ rcvd_journal' # rcvd_journal
        /\ UNCHANGED <<rcvd_packets, keys, notify, task, pathes, conn_error, cc, channels,
                       hs_hist>>
        /\ UNCHANGED <<dsvars, txvars, libvars>>

\* line 117: the task waits for the next packet
AwaitPacket ==
    /\ task.pc = "next"
    /\ \E r \in any(next(rcvd_packets), notify) :
        IF r = None
        THEN /\ task' = [pc |-> "done", packet |-> None]
             /\ hs_hist' = [hs_hist EXCEPT !.exit = "notified"]
             /\ UNCHANGED rcvd_packets
        ELSE /\ task' = [pc |-> "keys", packet |-> r]
             /\ rcvd_packets' = Tail(rcvd_packets)
             /\ hs_hist' = [hs_hist EXCEPT
                              !.after_error = IF \E i \in 1..Len(hs_hist.outcomes) :
                                                    hs_hist.outcomes[i].how = "parse_error"
                                              THEN @ \cup {r.id} ELSE @,
                              !.waited = IF keys = "Pending" THEN @ \cup {r.id} ELSE @]
    /\ UNCHANGED <<keys, notify, rcvd_journal, pathes, conn_error, cc, channels>>
    /\ UNCHANGED <<dsvars, txvars, libvars>>

\* lines 120-122: the task waits for the remote keys, the packet in hand
AwaitKeys ==
    /\ task.pc = "keys"
    /\ \E r \in any(get_remote_keys(keys), notify) :
        IF r = None
        THEN /\ task' = [pc |-> "done", packet |-> None]
             /\ hs_hist' = [hs_hist EXCEPT
                              !.exit = IF keys = "Invalid" /\ ~ notify THEN "keys_invalid"
                                       ELSE IF keys # "Invalid" THEN "notified"
                                       ELSE "notified_or_keys_invalid"]
        ELSE /\ task' = [task EXCEPT !.pc = "parse"]
             /\ UNCHANGED hs_hist
    /\ UNCHANGED <<rcvd_packets, keys, notify, rcvd_journal, pathes, conn_error, cc, channels>>
    /\ UNCHANGED <<dsvars, txvars, libvars>>

\* lines 123-176: the task processes the packet
ParsePacket ==
    /\ task.pc = "parse"
    /\ \E r \in {parse_packet(RX, task.packet.packet)} :
        /\ InstallRx(r.rx)
        /\ task' = [pc |-> IF r.ctl = "break" THEN "done" ELSE "next", packet |-> None]
        /\ hs_hist' = [hs_hist EXCEPT
                         !.begun = Append(@, task.packet.id),
                         !.outcomes = Append(@, [id |-> task.packet.id,
                                                 pathway |-> task.packet.packet.pathway,
                                                 how |-> r.how,
                                                 keys |-> keys]),
                         !.dispatched = @ \o [i \in 1..Len(r.dispatched) |->
                                                [id |-> task.packet.id,
                                                 pn |-> task.packet.packet.pn,
                                                 frame |-> r.dispatched[i]]],
                         !.exit = IF r.ctl = "break" THEN "reserved_bits" ELSE @]
    /\ UNCHANGED <<rcvd_packets, keys, notify>>
    /\ UNCHANGED <<dsvars, txvars, libvars>>

\* the receive task, lines 113-179
ReceiveTask == AwaitPacket \/ AwaitKeys \/ ParsePacket

(***************************************************************************)
(* The sending side of the Handshake space: try_assemble builds a packet,  *)
(* the ACK frames the receive task queued are piped to on_data_acked, and  *)
(* HandshakeTracker reports packets lost.  The sent journal, the crypto    *)
(* stream and the packet buffer live in other crates; they are modelled    *)
(* from the specification.                                                 *)
(***************************************************************************)
\* packets try_assemble builds over a run
MaxSentPn == 3
\* writes of the TLS layer to the crypto stream over a run
MaxCryptoWrites == 2
\* long header, length, packet number and AEAD tag of a Handshake packet
PacketOverhead == 45
\* an ACK frame with one range: type, largest, delay, range count, first range
AckFrameSize == 5
\* type, offset and length of a CRYPTO frame
CryptoFrameOverhead == 3

\* buffers offered to try_assemble: no room for a packet; room for one byte
\* of CRYPTO but not for an ACK; room for an ACK and some CRYPTO; ample
TxBufLens == {40, 49, 105, 1200}
CryptoWriteLens == {100}
\* what tx.need_ack(Epoch::Handshake) answers
NeedAcks == {None, [largest |-> 0], [largest |-> 1]}
\* the packet numbers an ACK frame or the loss detector may name
SentPns == 0..MaxSentPn
\* the ACK frames the peer may send, ranges descending as AckFrame::iter
\* yields them
AckFrames ==
    [type : {"Ack"},
     ranges : {<<<<0, 0>>>>, <<<<1, 1>>>>, <<<<0, 1>>>>, <<<<2, 2>>, <<0, 0>>>>,
               <<<<1, 2>>>>, <<<<3, 3>>, <<0, 1>>>>}]

\* the part of the space that sending and acknowledgment read and write
TX == [journal_sent |-> journal_sent, crypto_stream |-> crypto_stream]

\* ArcKeys::get_local_keys
get_local_keys(k) == IF k = "Ready" THEN [local |-> "keys"] ELSE None

\* the sent journal: ForAck::update_largest, on_pkt_acked, may_loss_pkt; the
\* entry of an acknowledged or lost packet is dropped, a packet number with
\* no entry yields no frame
update_largest(j, largest) == [j EXCEPT !.largest_acked = Max(@, largest)]
on_pkt_acked_kept(j, pn) ==
    IF pn \in DOMAIN j.entries THEN [j |-> j, frames |-> j.entries[pn]]
    ELSE [j |-> j, frames |-> <<>>]
on_pkt_acked(j, pn) ==
    IF pn \in DOMAIN j.entries
    THEN [j |-> [j EXCEPT !.entries = [x \in DOMAIN j.entries \ {pn} |-> j.entries[x]]],
          frames |-> j.entries[pn]]
    ELSE [j |-> j, frames |-> <<>>]
may_loss_pkt(j, pn) == on_pkt_acked(j, pn)
\* the journal records the packet built under the next packet number
record_packet(j, frames) ==
    [j EXCEPT !.entries = [x \in DOMAIN j.entries \cup {j.next_pn} |->
                              IF x = j.next_pn THEN frames ELSE j.entries[x]],
              !.next_pn = @ + 1]

\* CryptoStreamOutgoing::on_data_acked, may_loss_data
Crypto_on_data_acked(c, frame) ==
    [c EXCEPT !.acked = AddRange(@, frame.offset, frame.offset + frame.len),
              !.lost = SubRange(@, frame.offset, frame.offset + frame.len)]
Crypto_may_loss_data(c, frame) ==
    [c EXCEPT !.lost = Normalise(@ \cup Outside(c.acked, frame.offset,
                                                 frame.offset + frame.len))]

\* CryptoStreamOutgoing::try_load_data_into: CRYPTO frames, the ranges
\* marked lost first, then data never sent, as long as a byte fits
RECURSIVE try_load_data_into(_, _)
try_load_data_into(c, packet) ==
    LET retx == c.lost # {}
        lo == IF retx THEN SetMin({iv[1] : iv \in c.lost}) ELSE c.sent
        hi == IF retx THEN SetMin({iv[2] : iv \in {x \in c.lost : x[1] = lo}}) ELSE c.written
        len == Min(hi - lo, packet.remaining - CryptoFrameOverhead)
    IN IF len <= 0 THEN [c |-> c, packet |-> packet]
       ELSE try_load_data_into(
                [c EXCEPT !.lost = SubRange(@, lo, lo + len),
                          !.sent = IF retx THEN @ ELSE lo + len],
                [packet EXCEPT
                    !.frames = Append(@, [type |-> "Crypto", offset |-> lo, len |-> len]),
                    !.remaining = @ - (CryptoFrameOverhead + len)])

\* PacketMemory::new: None when the buffer cannot hold a packet
PacketMemory_new(buf_len) ==
    IF buf_len <= PacketOverhead THEN None
    ELSE [frames |-> <<>>, remaining |-> buf_len - PacketOverhead]
\* ArcRcvdJournal::gen_ack_frame_util: None when the frame does not fit
gen_ack_frame_util(largest, remaining) ==
    IF AckFrameSize > remaining THEN None
    ELSE [type |-> "Ack", ranges |-> <<<<0, largest>>>>]
\* PacketMemory::dump_ack_frame
dump_ack_frame(packet, ack_frame) ==
    [packet EXCEPT !.frames = Append(@, ack_frame), !.remaining = @ - AckFrameSize]

\* lines 196-205, were the owed ACK reported whether or not it was written
ack_owed(need_ack, ack_frame) ==
    [largest |-> need_ack.largest]
\* lines 196-205: ack is Some(largest) when the frame was generated and dumped
ack_written(need_ack, ack_frame) ==
    IF ack_frame # None THEN [largest |-> need_ack.largest] ELSE None

\* HandshakeSpace::try_assemble
try_assemble(tx, k, need_ack, buf_len) ==
    IF get_local_keys(k) = None THEN [tx |-> tx, ret |-> None]
    ELSE IF PacketMemory_new(buf_len) = None THEN [tx |-> tx, ret |-> None]
    ELSE LET p0 == PacketMemory_new(buf_len)
             ack_frame == IF need_ack = None THEN None
                          ELSE gen_ack_frame_util(need_ack.largest, p0.remaining)
             p1 == IF ack_frame # None THEN dump_ack_frame(p0, ack_frame) ELSE p0
             ack == IF need_ack = None THEN None ELSE ack_written(need_ack, ack_frame)
             loaded == try_load_data_into(tx.crypto_stream, p1)
             frames == loaded.packet.frames
         IN IF frames = <<>> THEN [tx |-> tx, ret |-> None]
            ELSE [tx |-> [journal_sent |->
                              record_packet(tx.journal_sent,
                                            SelectSeq(frames, LAMBDA f : f.type = "Crypto")),
                          crypto_stream |-> loaded.c],
                  ret |-> [pn |-> tx.journal_sent.next_pn, frames |-> frames, ack |-> ack]]

\* line 83: ack_frame.iter().flat_map(|r| r.rev()), the packet numbers of
\* every range from the highest down
acked_pns(ack_frame) ==
    LET RECURSIVE walk(_)
        walk(ranges) ==
            IF ranges = <<>> THEN <<>>
            ELSE [i \in 1..(Head(ranges)[2] - Head(ranges)[1] + 1) |-> Head(ranges)[2] - i + 1]
                 \o walk(Tail(ranges))
    IN walk(ack_frame.ranges)

\* the packet numbers line 83 walks, as a set
CoveredPns(ack_frame) == {acked_pns(ack_frame)[i] : i \in 1..Len(acked_pns(ack_frame))}

\* lines 83-87: the frames of every acknowledged packet still in the journal
\* go to the crypto stream; retired lists them with their packet number
RECURSIVE retire_acked(_, _)
retire_acked(tx, pns) ==
    IF pns = <<>> THEN [tx |-> tx, retired |-> <<>>]
    ELSE LET r == on_pkt_acked(tx.journal_sent, Head(pns))
             RECURSIVE each(_, _)
             each(c, frames) ==
                IF frames = <<>> THEN c
                ELSE each(Crypto_on_data_acked(c, Head(frames)), Tail(frames))
             rest == retire_acked([journal_sent |-> r.j,
                                   crypto_stream |-> each(tx.crypto_stream, r.frames)],
                                  Tail(pns))
         IN [tx |-> rest.tx,
             retired |-> [i \in 1..Len(r.frames) |-> [pn |-> Head(pns), frame |-> r.frames[i]]]
                         \o rest.retired]

\* build, lines 76-89: on_data_acked
hs_on_data_acked(tx, ack_frame) ==
    retire_acked([tx EXCEPT !.journal_sent = update_largest(@, ack_frame.ranges[1][2])],
                 acked_pns(ack_frame))

\* HandshakeTracker::may_loss, lines 338-342
may_loss(tx, pn) ==
    LET r == may_loss_pkt(tx.journal_sent, pn)
        RECURSIVE each(_, _)
        each(c, frames) ==
            IF frames = <<>> THEN c
            ELSE each(Crypto_may_loss_data(c, Head(frames)), Tail(frames))
    IN [journal_sent |-> r.j, crypto_stream |-> each(tx.crypto_stream, r.frames)]

TxStart ==
    /\ journal_sent = [entries |-> <<>>, next_pn |-> 0, largest_acked |-> -1]
    /\ crypto_stream = [written |-> 0, sent |-> 0, lost |-> {}, acked |-> {}]
    /\ tx_hist = [retired |-> <<>>, acked |-> {}, lost |-> {}, writes |-> 0, built |-> 0,
                  emitted |-> <<>>]
    /\ closing = [some |-> FALSE]
    /\ pipes = [ack |-> [busy |-> FALSE], crypto |-> [busy |-> FALSE],
                ack_taken |-> 0, ack_done |-> 0, crypto_taken |-> 0, crypto_done |-> 0,
                incoming |-> {}]

\* the TLS layer writes handshake data to the crypto stream
CryptoWrite ==
    \E n \in CryptoWriteLens :
        /\ tx_hist.writes < MaxCryptoWrites
        /\ crypto_stream' = [crypto_stream EXCEPT !.written = @ + n]
        /\ tx_hist' = [tx_hist EXCEPT !.writes = @ + 1]
        /\ UNCHANGED <<journal_sent, closing, pipes, dsvars, rxvars, libvars>>

\* the send loop offers the space a buffer
TryAssemble ==
    \E need_ack \in NeedAcks, buf_len \in TxBufLens :
        \E r \in {try_assemble(TX, keys, need_ack, buf_len)} :
            /\ journal_sent.next_pn < MaxSentPn
            /\ journal_sent' = r.tx.journal_sent
            /\ crypto_stream' = r.tx.crypto_stream
            /\ r.ret # None
            /\ tx_hist' = [tx_hist EXCEPT
                             !.built = @ + 1,
                             !.emitted = Append(@, [pn |-> r.ret.pn, by |-> "try_assemble",
                                                    closes |-> FALSE])]
            /\ UNCHANGED <<closing, pipes, dsvars, rxvars, libvars>>

\* an ACK frame of the queue reaches on_data_acked
RecvAck ==
    \E f \in AckFrames :
        \E r \in {hs_on_data_acked(TX, f)} :
            /\ journal_sent' = r.tx.journal_sent
            /\ crypto_stream' = r.tx.crypto_stream
            /\ tx_hist' = [tx_hist EXCEPT
                             !.retired = @ \o r.retired,
                             !.acked = @ \cup CoveredPns(f)]
            /\ UNCHANGED <<closing, pipes, dsvars, rxvars, libvars>>

\* the loss detector declares a packet lost
MayLoss ==
    \E pn \in SentPns :
        \E r \in {may_loss(TX, pn)} :
            /\ r # TX
            /\ journal_sent' = r.journal_sent
            /\ crypto_stream' = r.crypto_stream
            /\ tx_hist' = [tx_hist EXCEPT !.lost = @ \cup {pn}]
            /\ UNCHANGED <<closing, pipes, dsvars, rxvars, libvars>>


(***************************************************************************)
(* The closing scope of the Handshake space: TryFrom<HandshakeSpace> takes *)
(* the keys out of the space and fixes the packet number of the packets    *)
(* that carry the CONNECTION_CLOSE frame; assemble_ccf_packet builds one.  *)
(***************************************************************************)
\* calls of assemble_ccf_packet over a run
MaxCcfPackets == 2
\* the CONNECTION_CLOSE frames the closing connection may hand over
CloseFrames == {[type |-> "Close", code |-> 0], [type |-> "Close", code |-> 10]}

\* ArcKeys::invalid: the keys, if they were installed; the space has none
\* afterwards
invalid(k) ==
    [keys |-> "Invalid", ret |-> IF k = "Ready" THEN [local |-> "keys"] ELSE None]
\* SentJournal::new_packet().pn(): the packet number the next packet gets
new_packet_pn(j) == j.next_pn

\* TryFrom<HandshakeSpace> for ClosingHandshakeScope, lines 289-301
try_from(tx, k) ==
    IF invalid(k).ret = None THEN [some |-> FALSE]
    ELSE [some |-> TRUE, next_sending_pn |-> new_packet_pn(tx.journal_sent)]

\* ClosingHandshakeScope::assemble_ccf_packet, lines 237-283: the packet
\* carries self.next_sending_pn; the scope is read, never written
assemble_ccf_packet(scope, ccf) ==
    [pn |-> scope.next_sending_pn, by |-> "assemble_ccf_packet", closes |-> ccf.type = "Close"]

\* the connection enters the closing state
TryFromHandshakeSpace ==
    /\ ~ closing.some
    /\ keys # "Invalid"
    /\ closing' = try_from(TX, keys)
    /\ keys' = invalid(keys).keys
    /\ UNCHANGED <<journal_sent, crypto_stream, tx_hist, pipes>>
    /\ UNCHANGED <<rcvd_packets, notify, task, rcvd_journal, pathes, conn_error, cc,
                   channels, hs_hist>>
    /\ UNCHANGED <<dsvars, libvars>>

\* the closing connection answers a packet of the peer with the close packet
AssembleCcfPacket ==
    \E ccf \in CloseFrames :
        /\ closing.some
        /\ Len(SelectSeq(tx_hist.emitted, LAMBDA e : e.by = "assemble_ccf_packet"))
               < MaxCcfPackets
        /\ tx_hist' = [tx_hist EXCEPT
                         !.emitted = Append(@, assemble_ccf_packet(closing, ccf))]
        /\ UNCHANGED <<journal_sent, crypto_stream, closing, pipes, dsvars, rxvars, libvars>>


(***************************************************************************)
(* The two pipes of build, lines 91-92.  pipe! is defined outside src/: it *)
(* spawns a task that awaits the next item of the queue and calls the      *)
(* handler with it, so each pipe runs beside the receive task and beside   *)
(* the other pipe.                                                         *)
(***************************************************************************)
\* CryptoStreamIncoming::recv_frame: the bytes of the frame are kept
recv_frame(incoming, frame) == AddRange(incoming, frame.offset, frame.offset + frame.len)

\* line 92: the ACK pipe takes the next frame of its queue
AckPipeNext ==
    /\ ~ pipes.ack.busy
    /\ next(channels.ack_frames) # Pending
    /\ pipes' = [pipes EXCEPT !.ack = [busy |-> TRUE, frame |-> Head(channels.ack_frames)],
                              !.ack_taken = @ + 1]
    /\ channels' = [channels EXCEPT !.ack_frames = Tail(@)]
    /\ UNCHANGED <<rcvd_packets, keys, notify, task, rcvd_journal, pathes, conn_error, cc,
                   hs_hist>>
    /\ UNCHANGED <<journal_sent, crypto_stream, tx_hist, closing, dsvars, libvars>>

\* line 92: on_data_acked runs on the frame taken
AckPipeCall ==
    /\ pipes.ack.busy
    /\ \E r \in {hs_on_data_acked(TX, pipes.ack.frame)} :
        /\ journal_sent' = r.tx.journal_sent
        /\ crypto_stream' = r.tx.crypto_stream
        /\ tx_hist' = [tx_hist EXCEPT
                         !.retired = @ \o r.retired,
                         !.acked = @ \cup CoveredPns(pipes.ack.frame)]
    /\ pipes' = [pipes EXCEPT !.ack = [busy |-> FALSE], !.ack_done = @ + 1]
    /\ UNCHANGED <<closing, dsvars, rxvars, libvars>>

\* line 91: the CRYPTO pipe takes the next frame of its queue
CryptoPipeNext ==
    /\ ~ pipes.crypto.busy
    /\ next(channels.crypto_frames) # Pending
    /\ pipes' = [pipes EXCEPT !.crypto = [busy |-> TRUE, frame |-> Head(channels.crypto_frames)],
                              !.crypto_taken = @ + 1]
    /\ channels' = [channels EXCEPT !.crypto_frames = Tail(@)]
    /\ UNCHANGED <<rcvd_packets, keys, notify, task, rcvd_journal, pathes, conn_error, cc,
                   hs_hist>>
    /\ UNCHANGED <<journal_sent, crypto_stream, tx_hist, closing, dsvars, libvars>>

\* line 91: recv_frame of the incoming crypto stream runs on the frame taken
CryptoPipeCall ==
    /\ pipes.crypto.busy
    /\ pipes' = [pipes EXCEPT !.crypto = [busy |-> FALSE], !.crypto_done = @ + 1,
                              !.incoming = recv_frame(@, pipes.crypto.frame)]
    /\ UNCHANGED <<journal_sent, crypto_stream, tx_hist, closing, dsvars, rxvars, libvars>>

(***************************************************************************)
(* The RTT estimator of qcongestion.  A Duration is its number of          *)
(* nanoseconds.  Duration::mul_f32 goes through single-precision floating  *)
(* point: an f32 is the record [m, e] of value m * 2^e with                *)
(* 2^23 <= m < 2^24, or m = 0 for zero, and every operation rounds to the  *)
(* nearest such value, ties to the even mantissa.  TLC's integers are 32   *)
(* bits wide, so 48-bit products are kept as two 24-bit halves.            *)
(***************************************************************************)
\* updates of the estimator over a run
MaxSamples == 3
\* one millisecond, in nanoseconds
Millis == 1000000
\* rtt.rs, lines 6-8
INITIAL_RTT == 333 * Millis
GRANULARITY == 1 * Millis
TIME_THRESHOLD == [m |-> 9437184, e |-> -23]
\* the factors of lines 68-69: 0.75, 0.25, 0.875, 0.125
F32_0_75 == [m |-> 12582912, e |-> -24]
F32_0_25 == [m |-> 8388608, e |-> -25]
F32_0_875 == [m |-> 14680064, e |-> -24]
F32_0_125 == [m |-> 8388608, e |-> -26]
\* NANOS_PER_SEC as f32
F32_NANOS_PER_SEC == [m |-> 15625000, e |-> 6]
F32Zero == [m |-> 0, e |-> 0]

\* the samples, acknowledgment delays and peer parameters of a run
LatestRtts == {0, 100000, 100 * Millis, 120 * Millis, 400 * Millis}
AckDelays == {0, 10 * Millis, 30 * Millis}
PeerMaxAckDelays == {25 * Millis}

\* the number of bits of n
RECURSIVE BitLen(_)
BitLen(n) == IF n = 0 THEN 0 ELSE 1 + BitLen(n \div 2)

\* q, or the next value up when twice the remainder of the division by
\* whole is past whole, or equal to it with q odd
RoundHalfEven(q, rem2, whole) ==
    IF rem2 > whole \/ (rem2 = whole /\ q % 2 = 1) THEN q + 1 ELSE q
\* a mantissa that rounding carried to 2^24 is 2^23 one exponent higher
Renorm(m, e) == IF m = 16777216 THEN [m |-> 8388608, e |-> e + 1] ELSE [m |-> m, e |-> e]

\* u32 as f32
u32_as_f32(n) ==
    LET len == BitLen(n)
        s == len - 24
    IN IF n = 0 THEN F32Zero
       ELSE IF s <= 0 THEN [m |-> n * 2^(0 - s), e |-> s]
       ELSE Renorm(RoundHalfEven(n \div 2^s, 2 * (n % 2^s), 2^s), s)

\* the exact product of two numbers below 2^24, as hi * 2^24 + lo
Mul48(a, b) ==
    LET ah == a \div 4096
        al == a % 4096
        bh == b \div 4096
        bl == b % 4096
        mid == ah * bl + al * bh
        lo_sum == al * bl + (mid % 4096) * 4096
    IN [hi |-> ah * bh + mid \div 4096 + lo_sum \div 16777216, lo |-> lo_sum % 16777216]

\* f32 * f32
f32_mul(a, b) ==
    IF a.m = 0 \/ b.m = 0 THEN F32Zero
    ELSE Only({IF p.hi >= 8388608
               THEN Renorm(RoundHalfEven(p.hi, 2 * p.lo, 16777216), a.e + b.e + 24)
               ELSE Renorm(RoundHalfEven(2 * p.hi + p.lo \div 8388608,
                                         2 * (p.lo % 8388608), 8388608),
                           a.e + b.e + 23) : p \in {Mul48(a.m, b.m)}})

\* k more binary digits of the quotient q with remainder r of a division by d
RECURSIVE LongDiv(_, _, _, _)
LongDiv(q, r, d, k) ==
    IF k = 0 THEN [q |-> q, r |-> r]
    ELSE IF 2 * r >= d THEN LongDiv(2 * q + 1, 2 * r - d, d, k - 1)
    ELSE LongDiv(2 * q, 2 * r, d, k - 1)

\* f32 / f32, the divisor not zero
f32_div(a, b) ==
    LET k == IF a.m >= b.m THEN 23 ELSE 24
    IN IF a.m = 0 THEN F32Zero
       ELSE Only({Renorm(RoundHalfEven(d.q, 2 * d.r, b.m), a.e - b.e - k) :
                     d \in {LongDiv(a.m \div b.m, a.m % b.m, b.m, k)}})

\* Duration::as_secs_f32, for a Duration below one second: the seconds are
\* 0.0 and the sum is the quotient
as_secs_f32(d) == Only({f32_div(nanos, F32_NANOS_PER_SEC) : nanos \in {u32_as_f32(d)}})

\* Duration::from_secs_f32, for a value below two seconds: the nanoseconds
\* m * 2^e * 10^9 = m * 1953125 * 2^(e + 9), rounded to nearest, ties to even
from_secs_f32(x) ==
    LET s == 0 - (x.e + 9)
        round(p) ==
            IF s > 24
            THEN LET q == p.hi \div 2^(s - 24)
                     rem_hi == p.hi % 2^(s - 24)
                     half_hi == 2^(s - 25)
                 IN IF rem_hi > half_hi \/ (rem_hi = half_hi /\ p.lo > 0)
                       \/ (rem_hi = half_hi /\ p.lo = 0 /\ q % 2 = 1)
                    THEN q + 1 ELSE q
            ELSE IF s = 24 THEN RoundHalfEven(p.hi, 2 * p.lo, 16777216)
            ELSE RoundHalfEven(p.hi * 2^(24 - s) + p.lo \div 2^s, 2 * (p.lo % 2^s), 2^s)
    IN IF x.m = 0 THEN 0
       ELSE IF s - 24 > 30 THEN 0
       ELSE Only({round(p) : p \in {Mul48(x.m, 1953125)}})

\* Duration::mul_f32: from_secs_f32(rhs * self.as_secs_f32())
mul_f32(d, rhs) ==
    Only({from_secs_f32(x) : x \in {f32_mul(rhs, secs) : secs \in {as_secs_f32(d)}}})

\* Rtt::default, lines 20-31
Rtt_default ==
    [max_ack_delay |-> 0, first_rtt_sample |-> FALSE, latest_rtt |-> 0,
     smoothed_rtt |-> INITIAL_RTT, rttvar |-> INITIAL_RTT \div 2, min_rtt |-> 0]

\* adjust, were the delay taken off whenever the sample is no shorter than it
adjust_above_zero(latest_rtt, min_rtt, ack_delay) ==
    IF latest_rtt >= ack_delay THEN latest_rtt - ack_delay ELSE latest_rtt
\* lines 58-61: the sample less the acknowledgment delay, if plausible
adjust(latest_rtt, min_rtt, ack_delay) ==
    IF latest_rtt >= min_rtt + ack_delay THEN latest_rtt - ack_delay ELSE latest_rtt

\* lines 41-47, were the sample not marked as taken
first_sample_unmarked(self, latest_rtt) ==
    [self EXCEPT !.latest_rtt = latest_rtt, !.min_rtt = latest_rtt,
                 !.smoothed_rtt = latest_rtt, !.rttvar = latest_rtt \div 2]
\* lines 40-47: the first sample
first_sample(self, latest_rtt) ==
    [self EXCEPT !.latest_rtt = latest_rtt, !.min_rtt = latest_rtt,
                 !.smoothed_rtt = latest_rtt, !.rttvar = latest_rtt \div 2,
                 !.first_rtt_sample = TRUE]

\* Rtt::update, lines 34-70; adjusted_rtt is reported beside the estimator
update(self, latest_rtt, ack_delay, is_handshake_confirmed) ==
    IF ~ self.first_rtt_sample
    THEN [rtt |-> first_sample(self, latest_rtt), first |-> TRUE, adjusted_rtt |-> latest_rtt,
          ack_delay |-> ack_delay]
    ELSE LET min_rtt == Min(self.min_rtt, latest_rtt)
             delay == IF is_handshake_confirmed THEN Min(ack_delay, self.max_ack_delay)
                      ELSE ack_delay
             adjusted_rtt == adjust(latest_rtt, min_rtt, delay)
             abs_diff == IF self.smoothed_rtt > adjusted_rtt
                         THEN self.smoothed_rtt - adjusted_rtt
                         ELSE adjusted_rtt - self.smoothed_rtt
         IN [rtt |-> [self EXCEPT
                        !.latest_rtt = latest_rtt,
                        !.min_rtt = min_rtt,
                        !.rttvar = mul_f32(self.rttvar, F32_0_75)
                                   + mul_f32(abs_diff, F32_0_25),
                        !.smoothed_rtt = mul_f32(self.smoothed_rtt, F32_0_875)
                                         + mul_f32(adjusted_rtt, F32_0_125)],
             first |-> FALSE, adjusted_rtt |-> adjusted_rtt, ack_delay |-> delay]

\* Rtt::loss_delay, lines 72-77
loss_delay(self) ==
    Max(mul_f32(Max(self.latest_rtt, self.smoothed_rtt), TIME_THRESHOLD), GRANULARITY)

RttStart ==
    /\ rtt = Rtt_default
    /\ rtt_hist = [samples |-> 0, min_latest |-> 0, first |-> 0, last |-> None,
                   peer_max_ack_delay |-> 0]

\* the peer's transport parameters arrive: it declares its max_ack_delay;
\* nothing in rtt.rs takes the value
PeerDeclares ==
    \E d \in PeerMaxAckDelays :
        /\ rtt_hist.peer_max_ack_delay = 0
        /\ rtt_hist' = [rtt_hist EXCEPT !.peer_max_ack_delay = d]
        /\ UNCHANGED <<rtt, wire, convars, dsvars, rxvars, txvars>>

\* ArcRtt::update, lines 89-94
Update ==
    /\ rtt_hist.samples < MaxSamples
    /\ \E latest_rtt \in LatestRtts, ack_delay \in AckDelays, confirmed \in BOOLEAN :
        \E r \in {update(rtt, latest_rtt, ack_delay, confirmed)} :
            /\ r.rtt.smoothed_rtt < 1000 * Millis
            /\ rtt' = r.rtt
            /\ rtt_hist' = [rtt_hist EXCEPT
                              !.samples = @ + 1,
                              !.min_latest = IF @ = 0 /\ rtt_hist.samples = 0 THEN latest_rtt
                                             ELSE Min(@, latest_rtt),
                              !.first = @ + (IF r.first THEN 1 ELSE 0),
                              !.last = [before |-> rtt, latest_rtt |-> latest_rtt,
                                        ack_delay |-> ack_delay, confirmed |-> confirmed,
                                        used |-> r.ack_delay,
                                        adjusted_rtt |-> r.adjusted_rtt]]
            /\ UNCHANGED <<wire, convars, dsvars, rxvars, txvars>>

(***************************************************************************)
(* The RETIRE_CONNECTION_ID frame of qbase.  A VarInt holds a value below  *)
(* 2^62; TLC's integers are 32 bits wide, so a value is kept as the eight  *)
(* bytes of the u64, most significant first.  The varint codec lives in    *)
(* crate::varint, outside src/, and is modelled from RFC 9000, section 16. *)
(***************************************************************************)
\* retire_connection_id.rs, line 19
RETIRE_CONNECTION_ID_FRAME_TYPE == 25

\* the u64 of a small number, and a u64 moved up by k bytes
U64(n) == [i \in 1..8 |-> IF i <= 4 THEN 0 ELSE (n \div 256^(8 - i)) % 256]
ShiftBytes(v, k) == [i \in 1..8 |-> IF i + k <= 8 THEN v[i + k] ELSE 0]
\* 2^62 - 1
VARINT_MAX == <<63, 255, 255, 255, 255, 255, 255, 255>>
\* the sequence numbers of a run: the values around every change of the
\* encoding's length, the value of the crate's tests, and the largest
SmallNumbers ==
    {0, 1, 2, 37, 62, 63, 64, 65, 255, 256, 4660, 16383, 16384, 16385, 65535, 65536,
     16777215, 16777216, 1073741823, 1073741824, 1073741825, 2147483647}
SequenceNumbers ==
    {v \in {ShiftBytes(U64(n), k) : n \in SmallNumbers, k \in 0..4} : v[1] < 64}
        \cup {VARINT_MAX}

\* the value is below 2^(8n - 2)
Below(v, n) == (\A i \in 1..(8 - n) : v[i] = 0) /\ v[9 - n] < 64

\* VarInt::encoding_size
VarInt_encoding_size(v) ==
    IF Below(v, 1) THEN 1 ELSE IF Below(v, 2) THEN 2 ELSE IF Below(v, 4) THEN 4 ELSE 8

\* WriteVarInt::put_varint: the value in 1, 2, 4 or 8 bytes, the two high
\* bits of the first telling which
put_varint(buf, v) ==
    LET tagged(n, tag) == [i \in 1..n |-> IF i = 1 THEN tag * 64 + v[9 - n]
                                          ELSE v[8 - n + i]]
    IN IF Below(v, 1) THEN buf \o tagged(1, 0)
       ELSE IF Below(v, 2) THEN buf \o tagged(2, 1)
       ELSE IF Below(v, 4) THEN buf \o tagged(4, 2)
       ELSE buf \o tagged(8, 3)

\* varint::be_varint: the length from the two high bits of the first byte,
\* the value from the rest; Incomplete when the input is too short
be_varint(bytes) ==
    LET n == 2^(bytes[1] \div 64)
    IN IF bytes = <<>> \/ Len(bytes) < n THEN [ok |-> FALSE]
       ELSE [ok |-> TRUE,
             remain |-> SubSeq(bytes, n + 1, Len(bytes)),
             value |-> [i \in 1..8 |-> IF i < 9 - n THEN 0
                                       ELSE IF i = 9 - n THEN bytes[1] % 64
                                       ELSE bytes[i - (8 - n)]]]

\* BeFrame::max_encoding_size, lines 26-28
max_encoding_size(frame) == 1 + 8
\* lines 30-32, were the size the largest one
encoding_size_largest(frame) == 1 + 8
\* BeFrame::encoding_size, lines 30-32
encoding_size(frame) == 1 + VarInt_encoding_size(frame.sequence)

\* be_retire_connection_id_frame, lines 37-40
be_retire_connection_id_frame(bytes) ==
    LET r == be_varint(bytes)
    IN IF r.ok THEN [ok |-> TRUE, remain |-> r.remain, frame |-> [sequence |-> r.value]]
       ELSE [ok |-> FALSE]

\* lines 43-46, were the type byte left out
put_frame_untyped(buf, frame) == put_varint(buf, frame.sequence)
\* WriteFrame::put_frame, lines 43-46
put_frame(buf, frame) ==
    put_varint(Append(buf, RETIRE_CONNECTION_ID_FRAME_TYPE), frame.sequence)

FrameStart ==
    wire = [frame |-> None, buf |-> <<>>, read |-> FALSE, parsed |-> None]

\* a frame is written to an empty buffer
PutFrame ==
    \E sequence \in SequenceNumbers :
        /\ wire' = [frame |-> [sequence |-> sequence],
                    buf |-> put_frame(<<>>, [sequence |-> sequence]),
                    read |-> FALSE, parsed |-> None]
        /\ UNCHANGED <<rtt, rtt_hist, convars, dsvars, rxvars, txvars>>

\* the frame reader has taken the type byte and parses the rest
BeFrame ==
    /\ wire.buf # <<>>
    /\ ~ wire.read
    /\ wire' = [wire EXCEPT !.read = TRUE,
                            !.parsed = be_retire_connection_id_frame(Tail(wire.buf))]
    /\ UNCHANGED <<rtt, rtt_hist, convars, dsvars, rxvars, txvars>>

(***************************************************************************)
(* The locks of the stream engine (qrecovery/src/streams/raw.rs).          *)
(*                                                                         *)
(* DataStreams keeps its three maps behind a mutex each; the stream-id     *)
(* allocator guards itself.  The operations of the engine are called from  *)
(* several tasks at once: here every operation is the sequence of its lock *)
(* acquisitions and of the accesses it makes under them, and a thread runs *)
(* one operation at a time, a step at a time.  The IOState of a stream is  *)
(* shared by its entries in the two maps and is read and written without   *)
(* either lock deciding who goes first.                                    *)
(***************************************************************************)
\* tasks that call into the engine at once
MaxThreads == 2
ThreadIds == 1..MaxThreads
\* the mutexes, in the order the claim names them
LockNames == <<"output", "input", "listener", "stream_ids">>
Locks == {LockNames[n] : n \in 1..Len(LockNames)}
Rank(lock) == CHOOSE n \in 1..Len(LockNames) : LockNames[n] = lock
\* the first stream of every class
ConcSids == {Sid(r, d, 0) : r \in Roles, d \in Dirs}
Idle == [op |-> "idle"]

\* the steps an operation is made of.  orelse is the step the operation goes
\* on with when the map behind the lock holds the connection error, when the
\* stream is not in the map, or when the test fails
Lock(lock, orelse) == [i |-> "lock", lock |-> lock, orelse |-> orelse]
Get(map, orelse) == [i |-> "get", map |-> map, orelse |-> orelse]
Remove(map, orelse) == [i |-> "remove", map |-> map, orelse |-> orelse]
Insert(maps) == [i |-> "insert", maps |-> maps]
Test(what, orelse) == [i |-> what, orelse |-> orelse]
Do(what) == [i |-> what]
\* the guards go out of scope
Drop == [i |-> "drop"]

\* on_conn_error, lines 449-467
on_conn_error_steps ==
    <<Lock("output", 5), Lock("input", 5), Lock("listener", 5), Do("on_conn_error"), Drop>>

\* try_read_data, lines 177-178, and may_loss_data, lines 247-254: the
\* outgoing map alone
try_read_data_steps == <<Lock("output", 2), Drop>>

\* on_data_acked, lines 224-241
on_data_acked_steps ==
    <<Lock("output", 9), Get("output", 9), Test("is_all_rcvd", 9), Do("shutdown_send"),
      Test("is_terminated", 8), Lock("stream_ids", 0), Do("on_end_of_stream"),
      Remove("output", 9), Drop>>

\* on_reset_acked, lines 263-276
on_reset_acked_steps ==
    <<Lock("output", 7), Remove("output", 7), Do("shutdown_send"), Test("is_terminated", 7),
      Lock("stream_ids", 0), Do("on_end_of_stream"), Drop>>

\* poll_open_bi_stream, lines 496-519
poll_open_bi_stream_steps ==
    <<Lock("output", 6), Lock("input", 6), Lock("stream_ids", 0), Test("poll_alloc_sid", 6),
      Insert({"output", "input"}), Drop>>

\* poll_open_uni_stream, lines 522-538
poll_open_uni_stream_steps ==
    <<Lock("output", 5), Lock("stream_ids", 0), Test("poll_alloc_sid", 5),
      Insert({"output"}), Drop>>

\* try_accept_uni_sid, were the listener locked before the incoming map
try_accept_uni_sid_listener_first ==
    <<Lock("listener", 6), Lock("input", 6), Lock("stream_ids", 0), Test("try_accept_sid", 6),
      Insert({"input", "listener"}), Drop>>

\* try_accept_bi_sid, lines 556-586
try_accept_bi_sid_steps ==
    <<Lock("output", 7), Lock("input", 7), Lock("listener", 7), Lock("stream_ids", 0),
      Test("try_accept_sid", 7), Insert({"input", "output", "listener"}), Drop>>

\* try_accept_uni_sid, lines 588-612
try_accept_uni_sid_steps ==
    <<Lock("input", 6), Lock("listener", 6), Lock("stream_ids", 0), Test("try_accept_sid", 6),
      Insert({"input", "listener"}), Drop>>

\* steps, each orelse moved by n: the steps as a later part of an operation
Shifted(steps, n) ==
    [k \in 1..Len(steps) |->
        IF "orelse" \in DOMAIN steps[k] THEN [steps[k] EXCEPT !.orelse = @ + n] ELSE steps[k]]

\* try_accept_sid, lines 549-554, as recv_data and recv_stream_control call
\* it: for a stream of the peer only
try_accept_sid_steps(sid) ==
    IF Role(sid) = Only(LocalRoles) THEN <<>>
    ELSE IF Dir(sid) = "Bi" THEN try_accept_bi_sid_steps
    ELSE try_accept_uni_sid_steps

\* recv_data, lines 283-320: the stream is accepted, then looked up
recv_data_steps(sid) ==
    try_accept_sid_steps(sid)
        \o Shifted(<<Lock("input", 3), Get("input", 3), Drop>>, Len(try_accept_sid_steps(sid)))

\* recv_stream_control, lines 328-353: RESET_STREAM
recv_reset_stream_steps(sid) ==
    try_accept_sid_steps(sid)
        \o Shifted(<<Lock("input", 7), Remove("input", 7), Do("shutdown_receive"),
                     Test("is_terminated", 7), Lock("stream_ids", 0),
                     Do("on_end_of_stream"), Drop>>, Len(try_accept_sid_steps(sid)))

\* recv_stream_control, lines 354-381 and 382-405: STOP_SENDING and
\* MAX_STREAM_DATA lock the outgoing map once the stream is accepted
recv_stop_sending_steps(sid) ==
    try_accept_sid_steps(sid)
        \o Shifted(<<Lock("output", 2), Drop>>, Len(try_accept_sid_steps(sid)))

\* the operations and the streams they may be called for
Operations ==
    [op : {"on_conn_error"}, sid : {0}, all : {FALSE}]
    \cup [op : {"try_read_data"}, sid : {0}, all : {FALSE}]
    \cup [op : {"on_data_acked"}, sid : {s \in ConcSids : Dir(s) = "Bi"}, all : BOOLEAN]
    \cup [op : {"on_reset_acked"}, sid : {s \in ConcSids : Dir(s) = "Bi"}, all : {FALSE}]
    \cup [op : {"poll_open_bi_stream"}, sid : {Sid(r, "Bi", 0) : r \in LocalRoles},
          all : {FALSE}]
    \cup [op : {"poll_open_uni_stream"}, sid : {Sid(r, "Uni", 0) : r \in LocalRoles},
          all : {FALSE}]
    \cup [op : {"recv_data"}, sid : {s \in ConcSids : Role(s) \notin LocalRoles},
          all : {FALSE}]
    \cup [op : {"recv_reset_stream"}, sid : {s \in ConcSids : Role(s) \notin LocalRoles},
          all : {FALSE}]
    \cup [op : {"recv_stop_sending"},
          sid : {s \in ConcSids : Role(s) \notin LocalRoles /\ Dir(s) = "Bi"}, all : {FALSE}]

\* the steps of the operation a thread runs
Steps(th) ==
    CASE th.op = "on_conn_error" -> on_conn_error_steps
      [] th.op = "try_read_data" -> try_read_data_steps
      [] th.op = "on_data_acked" -> on_data_acked_steps
      [] th.op = "on_reset_acked" -> on_reset_acked_steps
      [] th.op = "poll_open_bi_stream" -> poll_open_bi_stream_steps
      [] th.op = "poll_open_uni_stream" -> poll_open_uni_stream_steps
      [] th.op = "recv_data" -> recv_data_steps(th.sid)
      [] th.op = "recv_reset_stream" -> recv_reset_stream_steps(th.sid)
      [] th.op = "recv_stop_sending" -> recv_stop_sending_steps(th.sid)
\* the step a thread is at
At(t) == Steps(threads[t])[threads[t].pc]
Held(t) == {lock \in Locks : locks[lock] = t}

\* the IOState a stream is created with
IOState_of(sid, maps) ==
    IF "output" \in maps /\ {"input"} \subseteq maps THEN IOState_bidirection
    ELSE IF "output" \in maps THEN IOState_send_only
    ELSE IOState_receive_only

ConcStart ==
    /\ locks = [lock \in Locks |-> 0]
    /\ threads = [t \in ThreadIds |-> Idle]
    /\ engine = [err |-> FALSE, allocated |-> {}, outgoings |-> {}, incomings |-> {},
                 io |-> [sid \in ConcSids |-> IOState_bidirection],
                 ended |-> [sid \in ConcSids |-> 0]]

\* a task calls an operation of the engine
Call(t) ==
    /\ threads[t] = Idle
    /\ \E o \in Operations : threads' = [threads EXCEPT ![t] = [op |-> o.op, sid |-> o.sid,
                                                                 all |-> o.all, pc |-> 1]]
    /\ UNCHANGED <<locks, engine>>
    /\ UNCHANGED <<dsvars, rxvars, txvars, rtt, rtt_hist, wire>>

\* lock() and guard(): the thread waits for the mutex; with it, it finds the
\* map or the connection error behind it
Acquire(t) ==
    /\ threads[t] # Idle
    /\ At(t).i = "lock"
    /\ locks[At(t).lock] = 0
    /\ locks' = [locks EXCEPT ![At(t).lock] = t]
    /\ threads' = [threads EXCEPT ![t].pc =
                      IF engine.err /\ At(t).lock # "stream_ids" THEN At(t).orelse ELSE @ + 1]
    /\ UNCHANGED engine
    /\ UNCHANGED <<dsvars, rxvars, txvars, rtt, rtt_hist, wire>>

\* an access to a map the thread holds the lock of, or to the IOState
Access(t) ==
    /\ threads[t] # Idle
    /\ LET step == At(t)
           sid == threads[t].sid
           members == IF step.map = "output" THEN engine.outgoings ELSE engine.incomings
       IN CASE step.i = "get" ->
                 /\ threads' = [threads EXCEPT ![t].pc =
                                   IF sid \in members THEN @ + 1 ELSE step.orelse]
                 /\ UNCHANGED engine
            [] step.i = "remove" ->
                 /\ threads' = [threads EXCEPT ![t].pc =
                                   IF sid \in members THEN @ + 1 ELSE step.orelse]
                 /\ engine' = IF step.map = "output"
                              THEN [engine EXCEPT !.outgoings = @ \ {sid}]
                              ELSE [engine EXCEPT !.incomings = @ \ {sid}]
            [] step.i = "insert" ->
                 /\ threads' = [threads EXCEPT ![t].pc = @ + 1]
                 /\ engine' = [engine EXCEPT
                                 !.outgoings = IF "output" \in step.maps THEN @ \cup {sid}
                                               ELSE @,
                                 !.incomings = IF "input" \in step.maps THEN @ \cup {sid}
                                               ELSE @,
                                 !.io[sid] = IOState_of(sid, step.maps)]
            [] step.i = "is_all_rcvd" ->
                 /\ threads' = [threads EXCEPT ![t].pc =
                                   IF threads[t].all THEN @ + 1 ELSE step.orelse]
                 /\ UNCHANGED engine
            [] step.i = "shutdown_send" ->
                 /\ threads' = [threads EXCEPT ![t].pc = @ + 1]
                 /\ engine' = [engine EXCEPT !.io[sid] = shutdown_send(@)]
            [] step.i = "shutdown_receive" ->
                 /\ threads' = [threads EXCEPT ![t].pc = @ + 1]
                 /\ engine' = [engine EXCEPT !.io[sid] = shutdown_receive(@)]
            [] step.i = "is_terminated" ->
                 /\ threads' = [threads EXCEPT ![t].pc =
                                   IF is_terminated(engine.io[sid]) THEN @ + 1
                                   ELSE step.orelse]
                 /\ UNCHANGED engine
            [] step.i = "on_conn_error" ->
                 /\ threads' = [threads EXCEPT ![t].pc = @ + 1]
                 /\ engine' = [engine EXCEPT !.err = TRUE]
            [] OTHER -> FALSE
    /\ UNCHANGED locks
    /\ UNCHANGED <<dsvars, rxvars, txvars, rtt, rtt_hist, wire>>

\* a call on the stream-id allocator, which the thread leaves unlocked
Allocator(t) ==
    /\ threads[t] # Idle
    /\ At(t).i \in {"poll_alloc_sid", "try_accept_sid", "on_end_of_stream"}
    /\ locks' = [locks EXCEPT !["stream_ids"] = 0]
    /\ IF At(t).i = "on_end_of_stream"
       THEN /\ engine' = [engine EXCEPT !.ended[threads[t].sid] = @ + 1]
            /\ threads' = [threads EXCEPT ![t].pc = @ + 1]
       ELSE IF threads[t].sid \in engine.allocated
       THEN /\ threads' = [threads EXCEPT ![t].pc = At(t).orelse]
            /\ UNCHANGED engine
       ELSE /\ engine' = [engine EXCEPT !.allocated = @ \cup {threads[t].sid}]
            /\ threads' = [threads EXCEPT ![t].pc = @ + 1]
    /\ UNCHANGED <<dsvars, rxvars, txvars, rtt, rtt_hist, wire>>

\* the guards are dropped; the operation goes on, or returns
Release(t) ==
    /\ threads[t] # Idle
    /\ At(t).i = "drop"
    /\ locks' = [lock \in Locks |-> IF locks[lock] = t THEN 0 ELSE locks[lock]]
    /\ threads' = [threads EXCEPT ![t] =
                      IF threads[t].pc = Len(Steps(threads[t])) THEN Idle
                      ELSE [@ EXCEPT !.pc = @ + 1]]
    /\ UNCHANGED engine
    /\ UNCHANGED <<dsvars, rxvars, txvars, rtt, rtt_hist, wire>>

Init == DsStart /\ HsStart /\ TxStart /\ RttStart /\ FrameStart /\ ConcStart

(***************************************************************************)
(* LockSpec: the tasks of a connection calling into the engine at once,    *)
(* each operation a lock and an access at a time.                          *)
(***************************************************************************)
LockNext ==
    \E t \in ThreadIds :
        \/ Call(t)
        \/ Acquire(t)
        \/ Access(t)
        \/ Allocator(t)
        \/ Release(t)
LockSpec == Init /\ [][LockNext]_vars

(***************************************************************************)
(* RecvSpec: the engine under every frame the peer may send, with streams  *)
(* opened and accepted by the application and connection errors.           *)
(***************************************************************************)
RecvNext ==
    \/ RecvData
    \/ RecvStreamControl
    \/ OnConnError
    \/ OpenBiStream
    \/ OpenUniStream
    \/ AcceptBi
    \/ AcceptUni
RecvSpec == Init /\ [][RecvNext]_vars

(***************************************************************************)
(* SendSpec: the sending side.  The application opens, accepts, writes and *)
(* ends streams; the protocol layer reads STREAM frames and reports them   *)
(* acknowledged or lost; the peer sends the control frames that bear on    *)
(* sending.                                                                *)
(***************************************************************************)
SendNext ==
    \/ TryReadData
    \/ OnDataAcked
    \/ MayLossData
    \/ OnResetAcked
    \/ RecvSendControl
    \/ OpenBiStream
    \/ AcceptBi
    \/ Write
    \/ Shutdown
SendSpec == Init /\ [][SendNext]_vars

(***************************************************************************)
(* LiveSpec: the sending side with a protocol layer that keeps asking for  *)
(* STREAM frames (the send loop calls try_read_data for every packet it    *)
(* builds) and a peer that acknowledges what is in flight unless it is     *)
(* declared lost first.                                                    *)
(***************************************************************************)
RepeatedTryReadData == TryReadDataWithin(MaxLiveReads)
LiveNext ==
    \/ RepeatedTryReadData
    \/ OnDataAcked
    \/ MayLossData
    \/ RecvLiveControl
    \/ OpenBiStream
    \/ AcceptBi
    \/ Write
LiveSpec ==
    /\ Init
    /\ [][LiveNext]_vars
    /\ WF_vars(RepeatedTryReadData)
    /\ WF_vars(OnDataAcked)

(***************************************************************************)
(* ServeSpec: the protocol layer keeps asking for STREAM frames while the  *)
(* application opens, accepts, writes and ends streams and the peer lets   *)
(* a stream be opened, opens streams of its own and acknowledges what was  *)
(* sent; a stream whose data and FIN are acknowledged leaves the outgoing  *)
(* set.                                                                    *)
(***************************************************************************)
AmpleTryReadData == TryReadDataWith(MaxLiveReads, {AmpleFlow})
ServeNext ==
    \/ AmpleTryReadData
    \/ OnDataAcked
    \/ OpenBiStream
    \/ AcceptBi
    \/ WriteWithin(MaxServeWrites)
    \/ Shutdown
    \/ RecvServeControl
ServeSpec ==
    /\ Init
    /\ [][ServeNext]_vars
    /\ WF_vars(AmpleTryReadData)
    /\ WF_vars(OnDataAcked)

(***************************************************************************)
(* HsRecvSpec: the receive task of the Handshake space among packets that  *)
(* arrive, keys that are installed and invalidated, and the shutdown       *)
(* notifier.  The task is scheduled as long as it can take a step.         *)
(***************************************************************************)
HsRecvNext ==
    \/ Enqueue
    \/ InstallKeys
    \/ InvalidateKeys
    \/ NotifyShutdown
    \/ Retire
    \/ AwaitPacket
    \/ AwaitKeys
    \/ ParsePacket
HsRecvSpec == Init /\ [][HsRecvNext]_vars /\ WF_vars(ReceiveTask)

(***************************************************************************)
(* HsSendSpec: the sending side of the Handshake space.  The TLS layer     *)
(* installs the keys and writes to the crypto stream, the send loop asks   *)
(* for packets, the peer acknowledges and the loss detector reports.       *)
(***************************************************************************)
HsSendNext ==
    \/ InstallKeys
    \/ CryptoWrite
    \/ TryAssemble
    \/ RecvAck
    \/ MayLoss
HsSendSpec == Init /\ [][HsSendNext]_vars

(***************************************************************************)
(* HsCloseSpec: the space sends Handshake packets, then the connection     *)
(* closes and the closing scope builds the packets carrying the            *)
(* CONNECTION_CLOSE frame.                                                 *)
(***************************************************************************)
HsCloseNext ==
    \/ InstallKeys
    \/ CryptoWrite
    \/ TryAssemble
    \/ RecvAck
    \/ TryFromHandshakeSpace
    \/ AssembleCcfPacket
HsCloseSpec == Init /\ [][HsCloseNext]_vars

(***************************************************************************)
(* HsPipeSpec: the receive task dispatches the frames of the packets that  *)
(* arrive while the space sends packets of its own and the two pipes       *)
(* handle the ACK and CRYPTO frames queued for them.                       *)
(***************************************************************************)
HsPipeNext ==
    \/ Enqueue
    \/ InstallKeys
    \/ AwaitPacket
    \/ AwaitKeys
    \/ ParsePacket
    \/ TryAssemble
    \/ AckPipeNext
    \/ AckPipeCall
    \/ CryptoPipeNext
    \/ CryptoPipeCall
HsPipeSpec == Init /\ [][HsPipeNext]_vars

(***************************************************************************)
(* RttSpec: samples are fed to a fresh estimator, with the handshake       *)
(* confirmed or not; the peer declares its max_ack_delay at some point.    *)
(***************************************************************************)
RttNext ==
    \/ PeerDeclares
    \/ Update
RttSpec == Init /\ [][RttNext]_vars

(***************************************************************************)
(* FrameSpec: RETIRE_CONNECTION_ID frames are written and read back.       *)
(***************************************************************************)
FrameNext ==
    \/ PutFrame
    \/ BeFrame
FrameSpec == Init /\ [][FrameNext]_vars

(***************************************************************************)
(* ErrSpec: a connection error may strike at any point of a run in which   *)
(* streams are opened by both sides, written to, read into STREAM frames   *)
(* and acknowledged or declared lost.                                      *)
(***************************************************************************)
ErrNext ==
    \/ OnConnError
    \/ TryReadData
    \/ OnDataAcked
    \/ MayLossData
    \/ RecvData
    \/ RecvLiveControl
    \/ OpenBiStream
    \/ Write
ErrSpec == Init /\ [][ErrNext]_vars

Next == RecvNext \/ SendNext \/ LiveNext \/ ErrNext \/ HsRecvNext \/ HsSendNext \/ HsCloseNext \/ HsPipeNext \/ RttNext \/ FrameNext \/ ServeNext \/ LockNext
Spec == Init /\ [][Next]_vars

(***************************************************************************)
(* Properties.  A property of an operation is stated over every input the  *)
(* operation may be given in the state at hand.                            *)
(***************************************************************************)
\* no connection error was recorded
Live(ds) == ds.output.err = NoErr /\ ds.input.err = NoErr /\ ds.listener.err = NoErr
\* the frames that name a stream, each with its type
FramesOnStreams ==
    [type : {"STREAM"}, id : AllSids, offset : RcvOffsets, len : RcvLens, fin : BOOLEAN]
    \cup {f \in StreamCtlFrames : f.type \in {"RESET_STREAM", "STOP_SENDING",
                                              "MAX_STREAM_DATA", "STREAM_DATA_BLOCKED"}}
\* the handler of a frame
Handle(ds, f) == IF f.type = "STREAM" THEN recv_data(ds, f) ELSE recv_stream_control(ds, f)
\* frames only the other direction of the stream may carry
Misdirected(f) ==
    \/ /\ f.type \in {"STREAM", "RESET_STREAM", "STREAM_DATA_BLOCKED"}
       /\ Role(f.id) = role /\ Dir(f.id) = "Uni"
    \/ /\ f.type \in {"STOP_SENDING", "MAX_STREAM_DATA"}
       /\ Role(f.id) # role /\ Dir(f.id) = "Uni"
\* frames on a stream of the peer that pass the direction check
Opens(f) == Role(f.id) # role /\ ~ Misdirected(f)
\* the peer's streams of ordinals a .. b-1 of a class, ascending
PeerSeq(d, a, b) == [i \in 1..(b - a) |-> Sid(Peer(role), d, a + i - 1)]
ListenerOf(ds, d) == IF d = "Bi" THEN ds.listener.bi ELSE ds.listener.uni
DeliveredOf(d) == IF d = "Bi" THEN hist.delivered_bi ELSE hist.delivered_uni
Created(ds) == {sid \in AllSids : ds.senders[sid] # None \/ ds.recvers[sid] # None}
Resets(ds, sid) ==
    Cardinality({i \in 1..Len(ds.ctrl_frames) :
                    ds.ctrl_frames[i].type = "RESET_STREAM" /\ ds.ctrl_frames[i].id = sid})
AllAcked(s) == s.fin = "Acked" /\ Covers(s.acked, 0, s.written)
\* frames the protocol layer may report on
ProbeFrames ==
    sent_journal \cup [id : AllSids, offset : {0, 4096}, len : {0, 904, 4096}, fin : BOOLEAN]
\* the stream after s among E, going up and wrapping to the lowest
Successor(E, s) ==
    IF \E x \in E : x > s THEN SetMin({x \in E : x > s}) ELSE SetMin(E)

\* C1: while two or more streams have data to send, no stream is served more
\* than DEFAULT_TOKENS bytes in a row, and a call is served by the stream that
\* still has tokens, else by the next higher stream with data, wrapping to the
\* lowest
C1_Fairness ==
    /\ hist.run.bytes <= DEFAULT_TOKENS
    /\ \A buf_len \in BufLens, flow_limit \in FlowLimits :
        \A E \in {Eligible(DS, buf_len, flow_limit)} :
        \A r \in {try_read_data(DS, buf_len, flow_limit)} :
            Cardinality(E) >= 2 =>
                /\ r.ret # None
                /\ r.ret.frame.len <= DEFAULT_TOKENS
                /\ r.ret.frame.id =
                     IF output.last_sent_stream = None THEN SetMin(E)
                     ELSE IF /\ output.last_sent_stream.tokens > 0
                             /\ output.last_sent_stream.sid \in E
                     THEN output.last_sent_stream.sid
                     ELSE Successor(E, output.last_sent_stream.sid)
\* the lower stream was served a full round and has more to send, and the
\* higher stream was served after it
C1_Witness ==
    /\ senders[0] # None /\ senders[1] # None
    /\ senders[0].sent = DEFAULT_TOKENS /\ senders[0].written > senders[0].sent
    /\ output.last_sent_stream # None
    /\ output.last_sent_stream.sid = 1
    /\ hist.run.sid = 1 /\ hist.run.bytes > 0

\* C2: the peer's streams are delivered to the listener in ascending order
\* without gaps, each once; a frame naming a stream not seen creates and
\* delivers every stream of the class not yet opened up to the one it names,
\* in ascending order, and a frame naming a stream seen creates and delivers
\* nothing
C2_ImplicitOpen ==
    /\ \A d \in Dirs : DeliveredOf(d) = PeerSeq(d, 0, Len(DeliveredOf(d)))
    /\ Live(DS) =>
        \A f \in FramesOnStreams :
            Opens(f) /\ Ord(f.id) < stream_ids.remote_max[Dir(f.id)] =>
                \A after \in {Handle(DS, f).ds} :
                \A opened \in {PeerSeq(Dir(f.id), Len(DeliveredOf(Dir(f.id))),
                                    Max(Len(DeliveredOf(Dir(f.id))), Ord(f.id) + 1))} :
                    /\ ListenerOf(after, Dir(f.id)) = ListenerOf(DS, Dir(f.id)) \o opened
                    /\ \A d \in Dirs \ {Dir(f.id)} : ListenerOf(after, d) = ListenerOf(DS, d)
                    /\ Created(after) = Created(DS) \cup SeqRange(opened)
\* one frame opened two streams of the peer
C2_Witness ==
    /\ hist.delivered_bi = PeerSeq("Bi", 0, 2)
    /\ hist.frames = 1

\* C3: a frame on a stream of the peer beyond the stream limit fails with a
\* StreamLimit error tagged with the frame's type and changes nothing
C3_StreamLimit ==
    Live(DS) =>
        \A f \in FramesOnStreams :
            Opens(f) /\ Ord(f.id) >= stream_ids.remote_max[Dir(f.id)] =>
                Handle(DS, f) = [ds |-> DS,
                                 ret |-> [ok |-> FALSE, kind |-> "StreamLimit", fty |-> f.type]]
\* streams of the peer are open and a frame beyond the limit is refused
C3_Witness ==
    /\ Live(DS)
    /\ Len(hist.delivered_bi) = InitMaxStreamsBidi
    /\ \E f \in FramesOnStreams :
        /\ f.type = "STOP_SENDING" /\ Opens(f)
        /\ Ord(f.id) >= stream_ids.remote_max[Dir(f.id)]
        /\ ~ Handle(DS, f).ret.ok

\* C4: a frame on a unidirectional stream whose sending side is not the
\* peer's to use is refused with a StreamState error tagged with the frame's
\* type, and the refusal changes nothing
C4_ValidationMatrix ==
    \A f \in FramesOnStreams :
        Misdirected(f) =>
            Handle(DS, f) = [ds |-> DS,
                             ret |-> [ok |-> FALSE, kind |-> "StreamState", fty |-> f.type]]
\* unidirectional streams of both sides exist and frames on them are refused
C4_Witness ==
    \E f \in FramesOnStreams, g \in FramesOnStreams :
        /\ Misdirected(f) /\ Role(f.id) = role /\ senders[f.id] # None
        /\ Misdirected(g) /\ Role(g.id) # role /\ recvers[g.id] # None
        /\ ~ Handle(DS, f).ret.ok /\ ~ Handle(DS, g).ret.ok

\* C5: STOP_SENDING on a stream whose sending half is active queues one
\* RESET_STREAM for it; no stream ever has more than one queued; once it is
\* queued, writes fail, try_read_data returns no frame of the stream and
\* another STOP_SENDING queues nothing
C5_StopSending ==
    /\ \A sid \in AllSids : Resets(DS, sid) <= 1
    /\ \A sid \in AllSids :
        Resets(DS, sid) = 1 =>
            /\ \A n \in WriteLens : Writer_write_len(senders[sid], n) = -1
            /\ \A buf_len \in BufLens, flow_limit \in FlowLimits :
                \A r \in {try_read_data(DS, buf_len, flow_limit)} :
                    r.ret = None \/ r.ret.frame.id # sid
    /\ \A f \in {g \in StreamCtlFrames : g.type = "STOP_SENDING"} :
        \A r \in {recv_stream_control(DS, f)} :
            /\ (/\ output.err = NoErr /\ f.id \in output.outgoings
                /\ senders[f.id].st \in {"Ready", "Sending", "DataSent"}) =>
                    /\ r.ret = Ok(0)
                    /\ r.ds.ctrl_frames =
                         Append(ctrl_frames, [type |-> "RESET_STREAM", id |-> f.id,
                                              app_error_code |-> 0, final_size |-> 0])
            /\ Resets(DS, f.id) = 1 => r.ds.ctrl_frames = ctrl_frames
\* a stream with unsent data was stopped
C5_Witness ==
    \E sid \in AllSids :
        /\ Resets(DS, sid) = 1
        /\ senders[sid].st = "ResetSent"
        /\ senders[sid].written > senders[sid].sent

\* C6: a RESET_STREAM that reaches the receiving half of a stream takes the
\* stream out of the incoming map and marks the half shut down; STREAM and
\* RESET_STREAM frames for it afterwards return Ok(0) and change nothing
C6_ResetStream ==
    /\ \A sid \in AllSids :
        recvers[sid] # None /\ recvers[sid].st = "ResetRcvd" =>
            sid \notin input.incomings /\ io_states[sid].receive
    /\ Live(DS) =>
        \A f \in {g \in FramesOnStreams : g.type = "RESET_STREAM"} :
            \A r \in {Handle(DS, f)} :
                (/\ r.ret.ok
                 /\ f.id \in input.incomings \/ f.id \in Created(r.ds) \ Created(DS)) =>
                    /\ f.id \notin r.ds.input.incomings
                    /\ r.ds.io_states[f.id].receive
                    /\ \A g \in FramesOnStreams :
                        g.type \in {"STREAM", "RESET_STREAM"} /\ g.id = f.id =>
                            Handle(r.ds, g) = [ds |-> r.ds, ret |-> Ok(0)]
\* a stream that had received data was reset
C6_Witness ==
    \E sid \in AllSids :
        /\ recvers[sid] # None /\ recvers[sid].st = "ResetRcvd"
        /\ sid \notin input.incomings
        /\ hist.frames >= 2

\* C7: on_data_acked removes a stream from the outgoing set exactly when all
\* of its data and its FIN are acknowledged, on_reset_acked removes it, nothing
\* else does; once a stream is removed, try_read_data returns no frame of it
\* and on_data_acked, may_loss_data and on_reset_acked for it change nothing
C7_SendHalfCompletion ==
    /\ output.err = NoErr =>
        /\ \A f \in sent_journal :
            f.id \in output.outgoings =>
                \A d \in {on_data_acked(DS, f)} :
                    /\ f.id \notin d.output.outgoings <=> AllAcked(d.senders[f.id])
                    /\ d.output.outgoings \cup {f.id} = output.outgoings
        /\ \A sid \in output.outgoings :
            on_reset_acked(DS, sid).output.outgoings = output.outgoings \ {sid}
    /\ \A buf_len \in BufLens, flow_limit \in FlowLimits :
        try_read_data(DS, buf_len, flow_limit).ds.output.outgoings = output.outgoings
    /\ \A f \in sent_journal : may_loss_data(DS, f).output.outgoings = output.outgoings
    /\ \A f \in SendCtlFrames :
        output.outgoings \subseteq recv_stream_control(DS, f).ds.output.outgoings
    /\ \A sid \in AllSids :
        senders[sid] # None /\ sid \notin output.outgoings =>
            /\ \A buf_len \in BufLens, flow_limit \in FlowLimits :
                \A r \in {try_read_data(DS, buf_len, flow_limit)} :
                    r.ret = None \/ r.ret.frame.id # sid
            /\ \A f \in ProbeFrames :
                f.id = sid => on_data_acked(DS, f) = DS /\ may_loss_data(DS, f) = DS
            /\ on_reset_acked(DS, sid) = DS
\* a stream whose data and FIN were acknowledged is gone from the outgoing set
C7_Witness ==
    \E sid \in AllSids :
        /\ senders[sid] # None /\ sid \notin output.outgoings
        /\ senders[sid].st = "DataRcvd" /\ senders[sid].written > 0

\* the streams whose sending halves the runs exercise
LiveSids == {Sid(r, "Bi", 0) : r \in Roles}
\* C8: bytes of a stream that may_loss_data declared lost while they were
\* unacknowledged and the stream was in the outgoing set are emitted again by
\* the repeated try_read_data calls, unless they are acknowledged or the
\* stream is reset first
C8_LossRecovery ==
    \A sid \in LiveSids : (hist.owed[sid] # {}) ~> (hist.owed[sid] = {})
\* bytes declared lost are owed a retransmission
C8_Witness == \E sid \in LiveSids : hist.owed[sid] # {}

\* C9: no STREAM frame try_read_data returns ends beyond the send limit of
\* its stream: the window given when the stream was opened or accepted (0
\* until then for a stream the peer opened), raised by MAX_STREAM_DATA
C9_StreamFlowControl ==
    /\ \A f \in sent_journal : f.offset + f.len <= hist.advertised[f.id]
    /\ \A buf_len \in BufLens, flow_limit \in FlowLimits :
        \A r \in {try_read_data(DS, buf_len, flow_limit)} :
            r.ret # None =>
                r.ret.frame.offset + r.ret.frame.len <= hist.advertised[r.ret.frame.id]
\* a frame on a stream the peer opened ends at the limit the accept set
C9_Witness ==
    \E f \in sent_journal :
        /\ Role(f.id) # role
        /\ hist.advertised[f.id] \in WndSizes
        /\ f.offset + f.len = hist.advertised[f.id]

\* C10: the fresh bytes try_read_data reports are at most flow_limit, and are
\* the bytes of the frame never sent before: none for a retransmission
C10_ConnFlowControl ==
    \A buf_len \in BufLens, flow_limit \in FlowLimits :
        \A r \in {try_read_data(DS, buf_len, flow_limit)} :
            r.ret # None =>
                /\ r.ret.fresh <= flow_limit
                /\ r.ret.fresh = Max(0, r.ret.frame.offset + r.ret.frame.len
                                           - senders[r.ret.frame.id].sent)
                /\ r.ret.frame.offset < senders[r.ret.frame.id].sent => r.ret.fresh = 0
\* with no flow credit a retransmission is returned and reports no fresh bytes
C10_Witness ==
    \E buf_len \in BufLens :
        \E r \in {try_read_data(DS, buf_len, 0)} :
            r.ret # None /\ r.ret.frame.len > 0 /\ r.ret.fresh = 0

\* C11: a connection error is absorbing.  The three maps hold the same error
\* at all times; once on_conn_error(e) has run, try_read_data returns None,
\* recv_data adds no byte and creates no stream, on_data_acked, may_loss_data
\* and on_reset_acked leave every stream as it is, opening a stream fails
\* with e, and on_conn_error with any error leaves e in place.
C11_ConnErrorAbsorbing ==
    /\ output.err = input.err /\ input.err = listener.err
    /\ output.err # NoErr =>
        /\ \A buf_len \in BufLens, flow_limit \in FlowLimits :
              try_read_data(DS, buf_len, flow_limit) = [ds |-> DS, ret |-> None]
        /\ \A f \in StreamFrames :
              /\ recv_data(DS, f).ds = DS
              /\ recv_data(DS, f).ret.ok => recv_data(DS, f).ret.n = 0
        /\ \A f \in ProbeFrames :
              on_data_acked(DS, f) = DS /\ may_loss_data(DS, f) = DS
        /\ \A sid \in AllSids : on_reset_acked(DS, sid) = DS
        /\ \A w \in WndSizes :
              /\ poll_open_bi_stream(DS, w) = [ds |-> DS, ret |-> Err(output.err, "open")]
              /\ poll_open_uni_stream(DS, w) = [ds |-> DS, ret |-> Err(output.err, "open")]
        /\ \A e \in ConnErrs : on_conn_error(DS, e) = DS
\* the error struck while a stream had data to send, a frame was in flight
\* and the peer could still open a stream
C11_Witness ==
    /\ output.err \in ConnErrs
    /\ sent_journal # {}
    /\ \E sid \in output.outgoings :
          /\ senders[sid].st = "Sending"
          /\ senders[sid].sent < senders[sid].written
    /\ \E sid \in input.incomings : Role(sid) # role
    /\ stream_ids.remote_unallocated["Bi"] < stream_ids.remote_max["Bi"]

(***************************************************************************)
(* Properties of the Handshake space.                                      *)
(***************************************************************************)
\* the packet number of p is one the received journal takes
InWindow(rx, p) ==
    /\ p.pn >= rx.rcvd_journal.base
    /\ p.pn < rx.rcvd_journal.base + JournalCapacity
    /\ p.pn \notin rx.rcvd_journal.rcvd
\* p gets through header protection, packet number decoding and decryption
Decrypts(rx, p) == p.hp = "Pn" /\ InWindow(rx, p) /\ p.auth
\* p fails one of the three without breaking the reserved bits
FailsQuietly(rx, p) ==
    \/ p.hp = "Unprotectable"
    \/ p.hp = "Pn" /\ (~ InWindow(rx, p) \/ ~ p.auth)
\* every frame of p parses
AllParse(p) == \A i \in 1..Len(p.frames) : p.frames[i] # BadFrame
IsPktRcvd(c) == c.call = "on_pkt_rcvd"
\* the on_pkt_rcvd calls that processing p adds
Reports(rx, p) ==
    SelectSeq(SubSeq(parse_packet(rx, p).rx.cc, Len(rx.cc) + 1, Len(parse_packet(rx, p).rx.cc)),
              IsPktRcvd)
Begun == {hs_hist.begun[i] : i \in 1..Len(hs_hist.begun)}

\* C12: a Handshake packet whose header protection cannot be removed, whose
\* packet number is too old, too large or already received, or whose payload
\* does not decrypt, is dropped: the journal, the paths, the congestion
\* controller, the connection error and the frame queues are as before, no
\* frame is dispatched, and the loop goes on to the next packet.
C12_SilentDrop ==
    \A p \in Packets :
        FailsQuietly(RX, p) =>
            parse_packet(RX, p) =
                [rx |-> RX, ctl |-> "continue", how |-> "dropped", dispatched |-> <<>>]
\* a packet was dropped and a later one was processed and registered
C12_Witness ==
    \E i, j \in 1..Len(hs_hist.outcomes) :
        /\ i < j
        /\ hs_hist.outcomes[i].how = "dropped"
        /\ hs_hist.outcomes[j].how = "registered"

\* C13: the packet number is registered and on_pkt_rcvd is reported, once,
\* exactly when the packet decrypted and every frame of it parsed; the report
\* carries the packet number and is ack-eliciting iff one of the frames is;
\* otherwise the journal is as before and nothing is reported.
C13_RegisterIffParsed ==
    \A p \in Packets :
        IF Decrypts(RX, p) /\ AllParse(p)
        THEN /\ parse_packet(RX, p).rx.rcvd_journal =
                    [rcvd_journal EXCEPT !.rcvd = @ \cup {p.pn}]
             /\ Len(Reports(RX, p)) = 1
             /\ Reports(RX, p)[1].pn = p.pn
             /\ Reports(RX, p)[1].ack_eliciting =
                    (\E i \in 1..Len(p.frames) : is_ack_eliciting(p.frames[i]))
        ELSE /\ parse_packet(RX, p).rx.rcvd_journal = rcvd_journal
             /\ Reports(RX, p) = <<>>
\* a packet was registered and reported ack-eliciting, and a packet failed
\* to parse after frames of it were dispatched and was not registered
C13_Witness ==
    /\ \E i \in 1..Len(cc) : IsPktRcvd(cc[i]) /\ cc[i].ack_eliciting /\ cc[i].pn = 1
    /\ \E i \in 1..Len(hs_hist.outcomes), k \in 1..Len(hs_hist.dispatched) :
          /\ hs_hist.outcomes[i].how = "parse_error"
          /\ hs_hist.dispatched[k].id = hs_hist.outcomes[i].id
    /\ rcvd_journal.rcvd = {1}

\* C14: the anti-amplification limiter of a path is released only after a
\* Handshake packet received on that path decrypted and had all of its frames
\* parsed without error.
C14_AddressValidation ==
    \A w \in Pathways :
        (pathes[w] # None /\ pathes[w].granted) =>
            \E i \in 1..Len(hs_hist.outcomes) :
                /\ hs_hist.outcomes[i].pathway = w
                /\ hs_hist.outcomes[i].how = "registered"

\* C15: when a frame of a decrypted packet fails to parse a connection error
\* is raised, and no frame is dispatched from a packet the loop takes from
\* the queue after that.
C15_ParseErrorCloses ==
    /\ \A i \in 1..Len(hs_hist.outcomes) :
          hs_hist.outcomes[i].how = "parse_error" => conn_error # <<>>
    /\ \A k \in 1..Len(hs_hist.dispatched) :
          hs_hist.dispatched[k].id \notin hs_hist.after_error

\* C16: every call the receive path makes on the congestion controller,
\* on_ack and on_pkt_rcvd, carries the Handshake epoch.
C16_HandshakeEpoch ==
    \A i \in 1..Len(cc) : cc[i].epoch = "Handshake"

C18_KeyWait ==
    /\ [](/\ \A i \in 1..Len(hs_hist.begun) : hs_hist.begun[i] = hs_hist.arrived[i]
          /\ task.pc \in {"keys", "parse"} =>
                task.packet.id = hs_hist.arrived[Len(hs_hist.begun) + 1]
          /\ (task.pc = "keys" /\ keys # "Ready" /\ (notify \/ keys = "Invalid")) =>
                any(get_remote_keys(keys), notify) = {None}
          /\ (task.pc = "keys" /\ keys = "Pending" /\ ~ notify) =>
                any(get_remote_keys(keys), notify) = {}
          /\ (task.pc = "done" /\ hs_hist.exit = "notified") => notify
          /\ (task.pc = "done" /\ hs_hist.exit = "keys_invalid") => keys = "Invalid")
    /\ \A id \in 1..MaxPackets :
          (task.pc = "keys" /\ task.packet.id = id /\ keys = "Ready")
              ~> (id \in Begun \/ (task.pc = "done" /\ (notify \/ keys = "Invalid")))
\* two packets were taken, the first before the keys were installed, and
\* both were processed
C18_Witness ==
    /\ 1 \in hs_hist.waited
    /\ hs_hist.begun = <<1, 2>>

\* the packet numbers an ACK frame covers
CoveredBy(F) ==
    {pn \in SentPns : \E i \in 1..Len(F.ranges) :
                         F.ranges[i][1] <= pn /\ pn <= F.ranges[i][2]}

\* C19: whatever ACK frame arrives, every packet number its ranges cover
\* that is still in the sent journal has each of its CRYPTO frames handed to
\* the crypto stream's retirement once, and its entry is gone afterwards;
\* the entries of the other packet numbers are untouched; the same frame
\* arriving again retires nothing.  Over the run no frame of a packet is
\* retired twice, and a packet sent, never acknowledged and never declared
\* lost is still in the journal.
C19_AckRetirement ==
    /\ \A F \in AckFrames :
        LET before == journal_sent.entries
            r == hs_on_data_acked(TX, F)
            after == r.tx.journal_sent.entries
            present == CoveredBy(F) \cap DOMAIN before
            again == hs_on_data_acked(r.tx, F)
        IN /\ DOMAIN after = DOMAIN before \ CoveredBy(F)
           /\ \A pn \in DOMAIN after : after[pn] = before[pn]
           /\ \A k \in 1..Len(r.retired) : r.retired[k].pn \in present
           /\ \A pn \in present :
                /\ Cardinality({k \in 1..Len(r.retired) : r.retired[k].pn = pn})
                       = Len(before[pn])
                /\ \A i \in 1..Len(before[pn]) :
                     /\ Cardinality({k \in 1..Len(r.retired) :
                                        r.retired[k] = [pn |-> pn, frame |-> before[pn][i]]}) = 1
                     /\ Covers(r.tx.crypto_stream.acked, before[pn][i].offset,
                               before[pn][i].offset + before[pn][i].len)
           /\ again.retired = <<>>
           /\ again.tx = r.tx
    /\ \A i, k \in 1..Len(tx_hist.retired) :
           i # k => tx_hist.retired[i] # tx_hist.retired[k]
    /\ \A pn \in 0..(journal_sent.next_pn - 1) :
           pn \notin tx_hist.acked \cup tx_hist.lost => pn \in DOMAIN journal_sent.entries

\* an ACK has retired frames before; two packets carrying CRYPTO frames are
\* in the journal, and an ACK frame covers one of them and not the other
C19_Witness ==
    /\ tx_hist.retired # <<>>
    /\ \E F \in AckFrames, p, q \in DOMAIN journal_sent.entries :
           /\ p \in CoveredBy(F) /\ q \notin CoveredBy(F)
           /\ journal_sent.entries[p] # <<>> /\ journal_sent.entries[q] # <<>>
           /\ Len(hs_on_data_acked(TX, F).retired) >= 1

\* C20: in a packet try_assemble returns, an ACK frame stands before every
\* CRYPTO frame, and the second component is Some(largest) exactly when the
\* packet holds an ACK frame; it is then the largest packet number of the
\* acknowledgment owed.
C20_AckFirst ==
    \A need_ack \in NeedAcks, buf_len \in TxBufLens :
        LET r == try_assemble(TX, keys, need_ack, buf_len)
            frames == r.ret.frames
        IN r.ret # None =>
            /\ \A i, k \in 1..Len(frames) :
                  frames[i].type = "Ack" /\ frames[k].type = "Crypto" => i < k
            /\ (r.ret.ack # None) <=> (\E i \in 1..Len(frames) : frames[i].type = "Ack")
            /\ r.ret.ack # None =>
                  /\ need_ack # None
                  /\ r.ret.ack.largest = need_ack.largest

\* a packet has been built before; now one buffer yields a packet with the
\* ACK followed by CRYPTO, and a smaller one a packet with CRYPTO only while
\* the acknowledgment is owed
C20_Witness ==
    /\ tx_hist.built >= 1
    /\ \E need_ack \in NeedAcks \ {None}, small, large \in TxBufLens :
        LET s == try_assemble(TX, keys, need_ack, small).ret
            l == try_assemble(TX, keys, need_ack, large).ret
        IN /\ s # None /\ l # None
           /\ s.ack = None /\ s.frames # <<>>
           /\ l.ack # None /\ Len(l.frames) >= 2 /\ l.frames[1].type = "Ack"
           /\ l.frames[2].type = "Crypto"

\* C21: the packets emitted in the Handshake space, by try_assemble and by
\* assemble_ccf_packet, carry strictly increasing packet numbers, so no
\* packet number is carried by two of them.
C21_PnNeverReused ==
    \A i, k \in 1..Len(tx_hist.emitted) :
        i < k => tx_hist.emitted[i].pn < tx_hist.emitted[k].pn

\* the frames dispatched so far that a pipe handles, by their place in the
\* order of dispatch; Turn(i) is the place of frame i in its own queue
Piped == {i \in 1..Len(hs_hist.dispatched) :
             hs_hist.dispatched[i].frame.type \in {"Ack", "Crypto"}}
Turn(i) ==
    Cardinality({k \in 1..i : hs_hist.dispatched[k].frame.type
                                 = hs_hist.dispatched[i].frame.type})
HandlerBegun(i) ==
    IF hs_hist.dispatched[i].frame.type = "Ack" THEN pipes.ack_taken >= Turn(i)
    ELSE pipes.crypto_taken >= Turn(i)
HandlerDone(i) ==
    IF hs_hist.dispatched[i].frame.type = "Ack" THEN pipes.ack_done >= Turn(i)
    ELSE pipes.crypto_done >= Turn(i)

\* C22: the handler of a frame of the Handshake epoch (on_data_acked for an
\* ACK frame, recv_frame of the incoming crypto stream for a CRYPTO frame)
\* begins only when the handlers of the frames dispatched before it have
\* completed; in particular the two handlers never run at the same time.
C22_SerializedHandling ==
    /\ \A i, k \in Piped : i < k /\ HandlerBegun(k) => HandlerDone(i)
    /\ ~ (pipes.ack.busy /\ pipes.crypto.busy)

\* C23: on a fresh estimator update(latest, ack_delay, confirmed) sets
\* min_rtt and smoothed_rtt to latest and rttvar to half of latest, whatever
\* latest, ack_delay and confirmed are, and marks the first sample as taken;
\* an estimator that took a sample treats no later update as the first, so
\* over a run exactly the first update is the first sample.
C23_FirstSample ==
    /\ rtt_hist.first = (IF rtt_hist.samples >= 1 THEN 1 ELSE 0)
    /\ rtt.first_rtt_sample <=> rtt_hist.samples >= 1
    /\ \A latest_rtt \in LatestRtts, ack_delay \in AckDelays, confirmed \in BOOLEAN :
        LET r == update(rtt, latest_rtt, ack_delay, confirmed)
        IN IF rtt_hist.samples = 0
           THEN /\ r.first
                /\ r.rtt.min_rtt = latest_rtt
                /\ r.rtt.smoothed_rtt = latest_rtt
                /\ latest_rtt - 2 * r.rtt.rttvar \in {0, 1}
                /\ r.rtt.first_rtt_sample
                /\ r.rtt = update(rtt, latest_rtt, 0, FALSE).rtt
           ELSE ~ r.first

\* two samples were fed, the second unlike the first: the first alone was
\* taken as the first sample
C23_Witness ==
    /\ rtt_hist.samples = 2
    /\ rtt_hist.first = 1
    /\ rtt_hist.last.latest_rtt # rtt_hist.last.before.latest_rtt
    /\ rtt.min_rtt # rtt.latest_rtt

\* result is from moved towards to by the n-th part of their distance, to
\* the nanosecond
IsBlend(result, from, to, n) ==
    \/ result - from = (to - from) \div n
    \/ (to - from) % n # 0 /\ result - from = (to - from) \div n + 1
AbsDiff(a, b) == IF a > b THEN a - b ELSE b - a

\* C24: after an update that is not the first, with the handshake confirmed
\* the acknowledgment delay used is the smaller of ack_delay and the
\* max_ack_delay the peer declared; adjusted is latest less that delay if
\* latest >= min_rtt + delay, else latest; rttvar is 3/4 of the old rttvar
\* plus 1/4 of the distance between the old smoothed_rtt and adjusted, and
\* smoothed_rtt is 7/8 of the old smoothed_rtt plus 1/8 of adjusted.
C24_SubsequentSamples ==
    (rtt_hist.samples >= 2
        /\ (rtt_hist.last.confirmed => rtt_hist.peer_max_ack_delay # 0)) =>
    LET l == rtt_hist.last
        delay == IF l.confirmed THEN Min(l.ack_delay, rtt_hist.peer_max_ack_delay)
                 ELSE l.ack_delay
        adjusted == IF l.latest_rtt >= rtt.min_rtt + delay THEN l.latest_rtt - delay
                    ELSE l.latest_rtt
    IN /\ l.used = delay
       /\ l.adjusted_rtt = adjusted
       /\ IsBlend(rtt.rttvar, l.before.rttvar, AbsDiff(l.before.smoothed_rtt, adjusted), 4)
       /\ IsBlend(rtt.smoothed_rtt, l.before.smoothed_rtt, adjusted, 8)

\* C25: loss_delay() is the larger of 1 ms and 9/8 of the larger of
\* latest_rtt and smoothed_rtt, to the nanosecond; it is never below 1 ms nor
\* below smoothed_rtt, and before any sample it is 9/8 of 333 ms.
C25_LossDelay ==
    LET largest == Max(rtt.latest_rtt, rtt.smoothed_rtt)
    IN /\ \/ loss_delay(rtt) = Max(largest + largest \div 8, GRANULARITY)
          \/ largest % 8 # 0 /\ loss_delay(rtt) = Max(largest + largest \div 8 + 1, GRANULARITY)
       /\ loss_delay(rtt) >= GRANULARITY
       /\ loss_delay(rtt) >= rtt.smoothed_rtt
       /\ rtt_hist.samples = 0 => loss_delay(rtt) = 374625 * 1000

\* the least of 1, 2, 4 and 8 bytes whose 8n - 2 bits hold the value
ShortestVarInt(v) == SetMin({n \in {1, 2, 4, 8} : Below(v, n)})

\* C26: for every sequence number put_frame writes the type byte 0x19 and
\* then the shortest varint of the sequence number, and
\* be_retire_connection_id_frame applied to the bytes after the type byte
\* gives back the frame and leaves no input; {sequence = 0x1234} is written
\* as 0x19 0x52 0x34.  A frame written and read back is the frame written.
C26_RoundTrip ==
    /\ \A sequence \in SequenceNumbers :
        LET frame == [sequence |-> sequence]
            buf == put_frame(<<>>, frame)
            parsed == be_retire_connection_id_frame(Tail(buf))
        IN /\ buf[1] = 25
           /\ Len(buf) = 1 + ShortestVarInt(sequence)
           /\ Tail(buf)[1] \div 64 = CHOOSE t \in 0..3 : 2^t = ShortestVarInt(sequence)
           /\ parsed.ok
           /\ parsed.frame = frame
           /\ parsed.remain = <<>>
    /\ put_frame(<<>>, [sequence |-> U64(4660)]) = <<25, 82, 52>>
    /\ wire.read => /\ wire.parsed.ok
                    /\ wire.parsed.frame = wire.frame
                    /\ wire.parsed.remain = <<>>

\* the largest sequence number was written in nine bytes and read back
C26_Witness ==
    /\ wire.read
    /\ wire.frame = [sequence |-> VARINT_MAX]
    /\ Len(wire.buf) = 9
    /\ wire.parsed.frame.sequence = VARINT_MAX

\* C27: for every sequence number encoding_size() is 1 plus the size of the
\* varint of the sequence number, one of 2, 3, 5 and 9, it is the number of
\* bytes put_frame writes, and it is at most max_encoding_size() = 9.
C27_EncodingSize ==
    /\ \A sequence \in SequenceNumbers :
        LET frame == [sequence |-> sequence]
        IN /\ encoding_size(frame) = 1 + ShortestVarInt(sequence)
           /\ encoding_size(frame) \in {2, 3, 5, 9}
           /\ encoding_size(frame) = Len(put_frame(<<>>, frame))
           /\ encoding_size(frame) <= max_encoding_size(frame)
           /\ max_encoding_size(frame) = 9
    /\ wire.buf # <<>> => Len(wire.buf) = encoding_size(wire.frame)

\* a frame of five bytes was written: a sequence number of at least 2^14
\* and below 2^30
C27_Witness ==
    /\ wire.buf # <<>>
    /\ encoding_size(wire.frame) = 5
    /\ Len(wire.buf) = 5
    /\ \E a, b \in SequenceNumbers :
          encoding_size([sequence |-> a]) = 2 /\ encoding_size([sequence |-> b]) = 9

\* the streams that get a sending half in the runs of ServeSpec
ServeSids ==
    {Sid(r, "Bi", 0) : r \in LocalRoles}
        \cup {Sid(Peer(r), "Bi", o) : r \in LocalRoles, o \in 0..1}
\* the stream has a frame for a call with the largest buffer and the largest
\* flow credit of the runs
Servable(sid) ==
    /\ output.err = NoErr
    /\ sid \in output.outgoings
    /\ Outgoing_try_read(senders[sid], sid, 5000, DEFAULT_TOKENS, AmpleFlow) # None
\* the stream a call hands its frame to, E being the streams with a frame
\* for it: the last-served stream while it has tokens, else its successor
Resumes(E) ==
    IF output.last_sent_stream = None THEN SetMin(E)
    ELSE IF output.last_sent_stream.tokens > 0 /\ output.last_sent_stream.sid \in E
    THEN output.last_sent_stream.sid
    ELSE Successor(E, output.last_sent_stream.sid)
\* every call some stream has a frame for returns one, from the stream the
\* scan resumes with
ScanResumes ==
    \A buf_len \in BufLens, flow_limit \in FlowLimits :
        \A E \in {Eligible(DS, buf_len, flow_limit)} :
        \A r \in {try_read_data(DS, buf_len, flow_limit)} :
            IF E = {} THEN r.ret = None
            ELSE r.ret # None /\ r.ret.frame.id = Resumes(E)

\* C28: under repeated try_read_data calls a stream that has a frame for a
\* call with a large buffer and flow credit is served, or stops having one,
\* whatever streams are opened, written, ended or removed meanwhile; a call
\* resumes the scan with the last-served stream when it has tokens left and
\* with its successor when it has none or is gone
C28_NoStarvation ==
    /\ \A sid \in ServeSids :
        Servable(sid) ~> (hist.run.sid = sid \/ ~Servable(sid))
    /\ [](\A sid \in AllSids \ ServeSids : ~Servable(sid))
    /\ []ScanResumes
\* two streams wait with data while the last-served stream is gone from the
\* outgoing set
C28_Witness ==
    /\ output.last_sent_stream # None
    /\ output.last_sent_stream.sid \notin output.outgoings
    /\ Cardinality({sid \in ServeSids : Servable(sid) /\ hist.run.sid # sid}) >= 2

\* C29: once frames of a packet with packet number n were dispatched, no
\* frame of a later packet with the same packet number n is dispatched
C29_NoFrameTwice ==
    \A i, k \in 1..Len(hs_hist.dispatched) :
        hs_hist.dispatched[i].pn = hs_hist.dispatched[k].pn =>
            hs_hist.dispatched[i].id = hs_hist.dispatched[k].id

\* C30: the tokens recorded for the last-served stream are between 0 and
\* DEFAULT_TOKENS; a frame try_read_data returns carries at most the tokens
\* its stream was offered, and the record is what is left of them; a call
\* that returns None leaves the record as it is
C30_TokenAccounting ==
    /\ output.last_sent_stream # None =>
          output.last_sent_stream.tokens \in 0..DEFAULT_TOKENS
    /\ \A buf_len \in BufLens, flow_limit \in FlowLimits :
        \A r \in {try_read_data(DS, buf_len, flow_limit)} :
            IF r.ret = None
            THEN r.ds.output.last_sent_stream = output.last_sent_stream
            ELSE /\ r.ret.tokens \in 1..DEFAULT_TOKENS
                 /\ r.ret.frame.len <= r.ret.tokens
                 /\ r.ds.output.last_sent_stream =
                      [sid |-> r.ret.frame.id, tokens |-> r.ret.tokens - r.ret.frame.len]
\* the last-served stream has tokens left, a call with a small buffer
\* returns None, and a call is served what is left of the tokens
C30_Witness ==
    /\ output.last_sent_stream # None
    /\ output.last_sent_stream.tokens \in 1..(DEFAULT_TOKENS - 1)
    /\ \E buf_len \in BufLens : try_read_data(DS, buf_len, AmpleFlow).ret = None
    /\ \E buf_len \in BufLens :
        \E r \in {try_read_data(DS, buf_len, AmpleFlow)} :
            /\ r.ret # None
            /\ r.ret.tokens = output.last_sent_stream.tokens
            /\ r.ret.frame.len = r.ret.tokens

\* C33: once a sample was taken min_rtt is the least latest_rtt of the
\* samples so far and is at most latest_rtt; an update never raises it, and
\* the adjusted RTT it smooths is the sample or the sample less the
\* acknowledgment delay used, never below min_rtt and so never below 0,
\* whatever the acknowledgment delay
C33_MinRtt ==
    /\ rtt_hist.samples >= 1 =>
          /\ rtt.min_rtt = rtt_hist.min_latest
          /\ rtt.min_rtt <= rtt.latest_rtt
          /\ rtt_hist.last.adjusted_rtt >= rtt.min_rtt
    /\ rtt_hist.samples >= 2 => rtt.min_rtt <= rtt_hist.last.before.min_rtt
    /\ \A latest_rtt \in LatestRtts, ack_delay \in AckDelays, confirmed \in BOOLEAN :
        \A r \in {update(rtt, latest_rtt, ack_delay, confirmed)} :
            /\ r.rtt.min_rtt <= latest_rtt
            /\ rtt_hist.samples >= 1 =>
                  r.rtt.min_rtt = Min(rtt_hist.min_latest, latest_rtt)
            /\ r.adjusted_rtt \in {latest_rtt, latest_rtt - r.ack_delay}
            /\ r.adjusted_rtt >= r.rtt.min_rtt
            /\ r.adjusted_rtt >= 0
\* a later sample was below the acknowledgment delay reported with it and
\* below every sample before: it lowered min_rtt and was smoothed as it is
C33_Witness ==
    /\ rtt_hist.samples >= 2
    /\ rtt_hist.last.used > rtt_hist.last.latest_rtt
    /\ rtt_hist.last.adjusted_rtt = rtt_hist.last.latest_rtt
    /\ rtt.min_rtt < rtt_hist.last.before.min_rtt
    /\ rtt.min_rtt = rtt_hist.last.latest_rtt

(***************************************************************************)
(* The stream engine under concurrent callers                              *)
(***************************************************************************)
\* C31: for every stream the stream-id allocator's on_end_of_stream is
\* invoked at most once, and only once both halves of the stream have
\* terminated, however on_data_acked and on_reset_acked (under the outgoing
\* lock) interleave with the reception of RESET_STREAM (under the incoming
\* lock).
C31_EndOfStreamOnce ==
    \A sid \in ConcSids :
        /\ engine.ended[sid] <= 1
        /\ engine.ended[sid] >= 1 => is_terminated(engine.io[sid])

\* a thread waits: the mutex it asks for is held (by itself too, the mutex
\* is not reentrant)
Blocked(t) == threads[t] # Idle /\ At(t).i = "lock" /\ locks[At(t).lock] # 0
\* the threads of W wait for each other: each for a mutex one of W holds
WaitForEachOther(W) == \A t \in W : Blocked(t) /\ locks[At(t).lock] \in W

\* C32: every operation takes the locks it holds together in one order,
\* outgoing, then incoming, then listener, then the stream-id allocator: a
\* thread asks for a lock only while the locks it holds come before it in
\* that order, so that no set of threads running operations of the engine
\* wait for each other, and while an operation is running some thread can
\* take a step.
C32_LockOrder ==
    /\ \A t \in ThreadIds :
          threads[t] # Idle /\ At(t).i = "lock" =>
              \A held \in Held(t) : Rank(held) < Rank(At(t).lock)
    /\ \A W \in SUBSET ThreadIds : W # {} => ~ WaitForEachOther(W)
    /\ (\E t \in ThreadIds : threads[t] # Idle) =>
          \E t \in ThreadIds : threads[t] # Idle /\ ~ Blocked(t)

\* an operation holding two of the locks, and a thread that holds a lock of
\* its own waiting for one of them
C32_Witness ==
    \E t, u \in ThreadIds :
        /\ t # u
        /\ Cardinality(Held(t)) >= 2
        /\ Held(u) # {}
        /\ Blocked(u)
        /\ locks[At(u).lock] = t

====
